---- MODULE Spec2Model ----
(***************************************************************************)
(* Password vault with face / liveness / PIN authentication.               *)
(*                                                                         *)
(* The model follows src/face_auth.py (class FaceAuthenticator),           *)
(* src/vault_core.py and the event handlers of src/gui_app.py (class       *)
(* PasswordManagerGUI).  Every handler is a function from a "world" record *)
(* w = [app, fs, after, last] to the world after the handler returned:     *)
(*   app    the PasswordManagerGUI instance, with the FaceAuthenticator    *)
(*          as app.face_auth and the visible screen as app.screen;         *)
(*   fs     the files the program persists;                                *)
(*   after  the callbacks scheduled with root.after(500, ...), in order;   *)
(*   last   what the most recent handler did and returned.                 *)
(* `before` keeps what the claims need of the state the most recent        *)
(* handler started in.  `observations` is the sequence of eye observations *)
(* a liveness session processed since its reset, `cli` the session of      *)
(* src/test_vault.py running beside the GUI on the same files,             *)
(* `first_passphrase` the passphrase of the first call of                  *)
(* vault_core.verify_master_password on this installation,                 *)
(* `configured_pin` the PIN the calls of setup_quick_pin and                *)
(* disable_quick_pin made on the authenticator directly have configured.   *)
(*                                                                         *)
(* Units: thresholds and confidences are whole percents (0.60 is 60), face *)
(* distances are hundredths (0.40 is 40), eye aspect ratios are            *)
(* thousandths (0.22 is 220).  Timestamps are left out of the PIN file and *)
(* of the audit log lines; disk I/O is assumed not to fail.                *)
(***************************************************************************)
EXTENDS Integers, Sequences, FiniteSets, TLC

VARIABLES app, fs, after, last, before, consecutive_low, wrong_pins,
          observations, cli, first_passphrase, configured_pin

vars == <<app, fs, after, last, before, consecutive_low, wrong_pins,
          observations, cli, first_passphrase, configured_pin>>

\* ------------------------------------------------------------------------
\* Optional values: None is Python's None / a missing file, Some(x) a value.
None == <<>>
Some(x) == <<x>>
Get(o) == o[1]

Min(a, b) == IF a <= b THEN a ELSE b
Max(a, b) == IF a >= b THEN a ELSE b

\* ------------------------------------------------------------------------
\* Bounds of the model.
MaxLog == 3             \* match attempts are modelled while the log is shorter
MaxAfter == 1           \* scheduled root.after callbacks not yet run
PinGuessLimit == 3      \* the bound tried for "a bounded number of wrong PINs"

\* ------------------------------------------------------------------------
\* Program constants.
FACE_RECOGNITION_AVAILABLE == TRUE
SECURITY_MEDIUM == 60
FACE_ONLY_THRESHOLD == 80
DEFAULT_MAX_ATTEMPTS == 3
DEFAULT_BLINKS_REQUIRED == 2
EAR_THRESHOLD == 220
INITIAL_LAST_EAR == 1000
PIN_MIN_LEN == 4
PIN_MAX_LEN == 6

\* ------------------------------------------------------------------------
\* Inputs.
\* A camera frame is what the vision library makes of it:
\*   landmarks  face_landmarks(): "none" (empty list), "short" (an eye with
\*              fewer than 6 points), "ok";
\*   left_ear, right_ear  the two eye aspect ratios when landmarks = "ok";
\*   locations  face_locations(): "none", "one", "many";
\*   encodings  face_encodings(): <<>> or <<e>>, e a point on a line, so that
\*              face_distance is the absolute difference.
\* A call into the vision pipeline may also fail whatever the frame shows
\* (imwrite, load_image_file or the detector raising): each call takes its
\* fault as a further input.
NoFrame == [landmarks |-> "noframe", left_ear |-> 0, right_ear |-> 0,
            locations |-> "noframe", encodings |-> <<>>]

Frame(lm, l, r, loc, enc) ==
  [landmarks |-> lm, left_ear |-> l, right_ear |-> r, locations |-> loc, encodings |-> enc]

\* Frames of the login flow: the owner at distance 20, 40 or 50 with open
\* eyes (average ratio exactly at the threshold) or closed eyes (average
\* below it), and the failures of the vision steps.
LoginFrames ==
  { Frame("ok", 220, 220, "one", <<e>>) : e \in {20, 40, 50} }
  \cup { Frame("ok", 300, 100, "one", <<20>>),
         Frame("none", 0, 0, "none", <<>>),
         Frame("short", 0, 0, "many", <<>>) }

\* Faults of one verify_face_from_frame call: liveness says whether the
\* liveness check raises, detect what the detection step does ("ok",
\* "loadfail": the image cannot be loaded, "raise": the detector raises).
LoginFaults == [liveness : BOOLEAN, detect : {"ok", "raise"}]

Digits == {"0", "1", "2", "3", "4", "5", "6", "7", "8", "9"}
\* PINs are sequences of characters.
Pin1234 == <<"1", "2", "3", "4">>
Pin9999 == <<"9", "9", "9", "9">>
SetupPins == { <<"1", "2">>, <<"1", "2", "a", "4">>, Pin1234 }
GuessPins == { <<>>, Pin1234, Pin9999 }
Salts == {"s1"}
Passphrases == {"", "a", "b"}
Services == {"mail"}

\* No PIN configured, none removed.
NoPin == [current |-> None, former |-> None]

\* ------------------------------------------------------------------------
\* src/face_auth.py: FaceAuthenticator.

\* The fields __init__ sets before it loads the persisted data.
NewAuthenticator ==
  [known_face_encodings |-> <<>>,
   min_confidence_threshold |-> SECURITY_MEDIUM,
   face_only_threshold |-> FACE_ONLY_THRESHOLD,
   max_attempts |-> DEFAULT_MAX_ATTEMPTS,
   current_attempt |-> 0,
   liveness_enabled |-> TRUE,
   blink_counter |-> 0,
   blinks_required |-> DEFAULT_BLINKS_REQUIRED,
   liveness_verified |-> FALSE,
   last_ear |-> INITIAL_LAST_EAR,
   blink_state |-> "open",
   pin_enabled |-> FALSE]

load_settings(fa, f) ==
  IF f.settings_file = None THEN fa
  ELSE LET settings == Get(f.settings_file)
       IN [fa EXCEPT !.min_confidence_threshold = settings.min_confidence_threshold,
                     !.face_only_threshold = settings.face_only_threshold,
                     !.max_attempts = settings.max_attempts,
                     !.liveness_enabled = settings.liveness_enabled,
                     !.blinks_required = settings.blinks_required]

save_settings(fa, f) ==
  [f EXCEPT !.settings_file =
     Some([min_confidence_threshold |-> fa.min_confidence_threshold,
           face_only_threshold |-> fa.face_only_threshold,
           max_attempts |-> fa.max_attempts,
           liveness_enabled |-> fa.liveness_enabled,
           blinks_required |-> fa.blinks_required,
           pin_enabled |-> fa.pin_enabled])]

load_encodings(fa, f) ==
  IF f.encodings_file = None THEN fa
  ELSE [fa EXCEPT !.known_face_encodings = Get(f.encodings_file)]

\* Variant: the PIN flag keeps the value __init__ gave it.
load_pin_status_default(fa, f) == fa

load_pin_status(fa, f) == [fa EXCEPT !.pin_enabled = (f.pin_file # None)]

\* FaceAuthenticator(data_dir): the object built from the files found.
FaceAuthenticator(f) ==
  load_pin_status(load_encodings(load_settings(NewAuthenticator, f), f), f)

\* set_security_level: level in whole percent, 0..100 accepted.
set_security_level(fa, f, level) ==
  IF 0 <= level /\ level <= 100
    THEN LET fa1 == [fa EXCEPT !.min_confidence_threshold = level]
         IN [fa |-> fa1, fs |-> save_settings(fa1, f), ok |-> TRUE]
    ELSE [fa |-> fa, fs |-> f, ok |-> FALSE]

set_blinks_required(fa, f, count) ==
  LET fa1 == [fa EXCEPT !.blinks_required = Max(1, Min(5, count))]
  IN [fa |-> fa1, fs |-> save_settings(fa1, f)]

set_liveness_enabled(fa, f, enabled) ==
  LET fa1 == [fa EXCEPT !.liveness_enabled = enabled]
  IN [fa |-> fa1, fs |-> save_settings(fa1, f)]

\* ---- quick PIN ----
isdigit(pin) == Len(pin) > 0 /\ \A i \in 1..Len(pin) : pin[i] \in Digits

\* hashlib.pbkdf2_hmac('sha256', pin, salt, 100000), as a term over its inputs.
pbkdf2_hmac(pin, salt) == <<"pbkdf2_hmac-sha256-100000", pin, salt>>

\* Variant: the length of the PIN is not checked.
setup_quick_pin_any_length(fa, f, pin, salt) ==
  IF ~isdigit(pin)
    THEN [fa |-> fa, fs |-> f, success |-> FALSE, message |-> "PIN must contain only digits"]
  ELSE LET data == [pin_hash |-> pbkdf2_hmac(pin, salt), salt |-> salt]
           f1 == [f EXCEPT !.pin_file = Some(data)]
           fa1 == [fa EXCEPT !.pin_enabled = TRUE]
       IN [fa |-> fa1, fs |-> save_settings(fa1, f1), success |-> TRUE,
           message |-> "Quick PIN setup successfully!"]

setup_quick_pin(fa, f, pin, salt) ==
  IF ~isdigit(pin)
    THEN [fa |-> fa, fs |-> f, success |-> FALSE, message |-> "PIN must contain only digits"]
  ELSE IF Len(pin) < PIN_MIN_LEN \/ Len(pin) > PIN_MAX_LEN
    THEN [fa |-> fa, fs |-> f, success |-> FALSE, message |-> "PIN must be 4-6 digits"]
  ELSE LET data == [pin_hash |-> pbkdf2_hmac(pin, salt), salt |-> salt]
           f1 == [f EXCEPT !.pin_file = Some(data)]
           fa1 == [fa EXCEPT !.pin_enabled = TRUE]
       IN [fa |-> fa1, fs |-> save_settings(fa1, f1), success |-> TRUE,
           message |-> "Quick PIN setup successfully!"]

\* Variant: the hash is computed without the stored salt.
verify_pin_unsalted(fa, f, pin) ==
  IF ~fa.pin_enabled \/ f.pin_file = None
    THEN [success |-> FALSE, message |-> "Quick PIN not enabled"]
  ELSE LET data == Get(f.pin_file)
           pin_hash == pbkdf2_hmac(pin, "")
       IN IF pin_hash = data.pin_hash
            THEN [success |-> TRUE, message |-> "PIN verified!"]
            ELSE [success |-> FALSE, message |-> "Incorrect PIN"]

verify_pin(fa, f, pin) ==
  IF ~fa.pin_enabled \/ f.pin_file = None
    THEN [success |-> FALSE, message |-> "Quick PIN not enabled"]
  ELSE LET data == Get(f.pin_file)
           pin_hash == pbkdf2_hmac(pin, data.salt)
       IN IF pin_hash = data.pin_hash
            THEN [success |-> TRUE, message |-> "PIN verified!"]
            ELSE [success |-> FALSE, message |-> "Incorrect PIN"]

\* Variant: the credential file and the flag are left as they are.
disable_quick_pin_keeps_credential(fa, f) ==
  [fa |-> fa, fs |-> save_settings(fa, f)]

disable_quick_pin(fa, f) ==
  LET f1 == [f EXCEPT !.pin_file = None]
      fa1 == [fa EXCEPT !.pin_enabled = FALSE]
  IN [fa |-> fa1, fs |-> save_settings(fa1, f1)]

\* ---- liveness ----
\* A variant of LivenessResult that reports a skipped check as not verified.
LivenessResult_fail_closed(fa, verified, blinks, message) ==
  [fa |-> fa, is_verified |-> verified /\ message # "Liveness check skipped",
   blink_count |-> blinks, message |-> message]

LivenessResult(fa, verified, blinks, message) ==
  [fa |-> fa, is_verified |-> verified, blink_count |-> blinks, message |-> message]

\* A variant of detect_blink that counts the blink when the eyes close.
detect_blink_on_close(fa, avg_ear) ==
  LET fa1 == IF avg_ear < EAR_THRESHOLD
               THEN (IF fa.blink_state = "open"
                       THEN [fa EXCEPT !.blink_counter = @ + 1, !.blink_state = "closed"]
                       ELSE fa)
               ELSE (IF fa.blink_state = "closed"
                       THEN [fa EXCEPT !.blink_state = "open"]
                       ELSE fa)
  IN [fa1 EXCEPT !.last_ear = avg_ear]

\* A variant of detect_blink that counts every open-eyes frame which follows
\* a blink start, without returning the state to open.
detect_blink_every_open(fa, avg_ear) ==
  LET fa1 == IF avg_ear < EAR_THRESHOLD
               THEN (IF fa.blink_state = "open"
                       THEN [fa EXCEPT !.blink_state = "closed"] ELSE fa)
               ELSE (IF fa.blink_state = "closed"
                       THEN [fa EXCEPT !.blink_counter = @ + 1]
                       ELSE fa)
  IN [fa1 EXCEPT !.last_ear = avg_ear]

\* Lines 290-299: the blink state machine on one averaged eye aspect ratio.
detect_blink(fa, avg_ear) ==
  LET fa1 == IF avg_ear < EAR_THRESHOLD
               THEN (IF fa.blink_state = "open"
                       THEN [fa EXCEPT !.blink_state = "closed"] ELSE fa)
               ELSE (IF fa.blink_state = "closed"
                       THEN [fa EXCEPT !.blink_counter = @ + 1, !.blink_state = "open"]
                       ELSE fa)
  IN [fa1 EXCEPT !.last_ear = avg_ear]

\* A variant of check_liveness_frame without the early return of a verified
\* session (lines 259-260).
check_liveness_frame_reprocesses(fa, frame, fault) ==
  IF ~fa.liveness_enabled THEN LivenessResult(fa, TRUE, 0, "Liveness disabled")
  ELSE IF ~FACE_RECOGNITION_AVAILABLE THEN LivenessResult(fa, TRUE, 0, "Skipped")
  ELSE IF fault
    THEN LivenessResult(fa, TRUE, 0, "Liveness check skipped")
  ELSE IF frame.landmarks = "none"
    THEN LivenessResult(fa, FALSE, fa.blink_counter, "No face for liveness")
  ELSE IF frame.landmarks = "short"
    THEN LivenessResult(fa, FALSE, fa.blink_counter, "Eyes not detected")
  ELSE LET avg_ear == (frame.left_ear + frame.right_ear) \div 2
           fa1 == detect_blink(fa, avg_ear)
       IN IF fa1.blink_counter >= fa1.blinks_required
            THEN LivenessResult([fa1 EXCEPT !.liveness_verified = TRUE], TRUE,
                                fa1.blink_counter, "Liveness verified!")
            ELSE LivenessResult(fa1, FALSE, fa1.blink_counter, "Blink more")

\* A variant of check_liveness_frame that starts the session over when the
\* face or the eyes are lost.
check_liveness_frame_restarts(fa, frame, fault) ==
  IF ~fa.liveness_enabled THEN LivenessResult(fa, TRUE, 0, "Liveness disabled")
  ELSE IF fa.liveness_verified
    THEN LivenessResult(fa, TRUE, fa.blink_counter, "Already verified")
  ELSE IF ~FACE_RECOGNITION_AVAILABLE THEN LivenessResult(fa, TRUE, 0, "Skipped")
  ELSE IF fault
    THEN LivenessResult(fa, TRUE, 0, "Liveness check skipped")
  ELSE IF frame.landmarks = "none"
    THEN LivenessResult([fa EXCEPT !.blink_counter = 0, !.blink_state = "open"],
                        FALSE, 0, "No face for liveness")
  ELSE IF frame.landmarks = "short"
    THEN LivenessResult([fa EXCEPT !.blink_counter = 0, !.blink_state = "open"],
                        FALSE, 0, "Eyes not detected")
  ELSE LET avg_ear == (frame.left_ear + frame.right_ear) \div 2
           fa1 == detect_blink(fa, avg_ear)
       IN IF fa1.blink_counter >= fa1.blinks_required
            THEN LivenessResult([fa1 EXCEPT !.liveness_verified = TRUE], TRUE,
                                fa1.blink_counter, "Liveness verified!")
            ELSE LivenessResult(fa1, FALSE, fa1.blink_counter, "Blink more")

\* A variant of check_liveness_frame whose skipped check marks the session
\* as verified.
check_liveness_frame_skip_verifies(fa, frame, fault) ==
  IF ~fa.liveness_enabled THEN LivenessResult(fa, TRUE, 0, "Liveness disabled")
  ELSE IF fa.liveness_verified
    THEN LivenessResult(fa, TRUE, fa.blink_counter, "Already verified")
  ELSE IF ~FACE_RECOGNITION_AVAILABLE THEN LivenessResult(fa, TRUE, 0, "Skipped")
  ELSE IF fault
    THEN LivenessResult([fa EXCEPT !.liveness_verified = TRUE], TRUE, 0,
                        "Liveness check skipped")
  ELSE IF frame.landmarks = "none"
    THEN LivenessResult(fa, FALSE, fa.blink_counter, "No face for liveness")
  ELSE IF frame.landmarks = "short"
    THEN LivenessResult(fa, FALSE, fa.blink_counter, "Eyes not detected")
  ELSE LET avg_ear == (frame.left_ear + frame.right_ear) \div 2
           fa1 == detect_blink(fa, avg_ear)
       IN IF fa1.blink_counter >= fa1.blinks_required
            THEN LivenessResult([fa1 EXCEPT !.liveness_verified = TRUE], TRUE,
                                fa1.blink_counter, "Liveness verified!")
            ELSE LivenessResult(fa1, FALSE, fa1.blink_counter, "Blink more")

check_liveness_frame(fa, frame, fault) ==
  IF ~fa.liveness_enabled THEN LivenessResult(fa, TRUE, 0, "Liveness disabled")
  ELSE IF fa.liveness_verified
    THEN LivenessResult(fa, TRUE, fa.blink_counter, "Already verified")
  ELSE IF ~FACE_RECOGNITION_AVAILABLE THEN LivenessResult(fa, TRUE, 0, "Skipped")
  ELSE IF fault
    THEN LivenessResult(fa, TRUE, 0, "Liveness check skipped")
  ELSE IF frame.landmarks = "none"
    THEN LivenessResult(fa, FALSE, fa.blink_counter, "No face for liveness")
  ELSE IF frame.landmarks = "short"
    THEN LivenessResult(fa, FALSE, fa.blink_counter, "Eyes not detected")
  ELSE LET avg_ear == (frame.left_ear + frame.right_ear) \div 2
           fa1 == detect_blink(fa, avg_ear)
       IN IF fa1.blink_counter >= fa1.blinks_required
            THEN LivenessResult([fa1 EXCEPT !.liveness_verified = TRUE], TRUE,
                                fa1.blink_counter, "Liveness verified!")
            ELSE LivenessResult(fa1, FALSE, fa1.blink_counter, "Blink more")

reset_liveness(fa) ==
  [fa EXCEPT !.blink_counter = 0, !.liveness_verified = FALSE,
             !.blink_state = "open", !.last_ear = INITIAL_LAST_EAR]

\* A variant of is_liveness_verified that asks for blinks also when the
\* check is disabled.
is_liveness_verified_strict(fa) == fa.liveness_verified

is_liveness_verified(fa) == ~fa.liveness_enabled \/ fa.liveness_verified

\* ---- face encoding ----
is_registered(fa) == Len(fa.known_face_encodings) > 0 /\ FACE_RECOGNITION_AVAILABLE

detect_and_encode_face(frame, fault) ==
  IF ~FACE_RECOGNITION_AVAILABLE THEN [encoding |-> None, error |-> "Not available"]
  ELSE IF fault = "loadfail" THEN [encoding |-> None, error |-> "Image load failed"]
  ELSE IF fault = "raise" THEN [encoding |-> None, error |-> "Exception"]
  ELSE IF frame.locations = "none" THEN [encoding |-> None, error |-> "No face detected"]
  ELSE IF frame.locations = "many" THEN [encoding |-> None, error |-> "Multiple faces"]
  ELSE IF frame.encodings = <<>> THEN [encoding |-> None, error |-> "Encoding failed"]
  ELSE [encoding |-> Some(frame.encodings[1]), error |-> ""]

save_encodings(fa, f) == [f EXCEPT !.encodings_file = Some(fa.known_face_encodings)]

\* Variant: a new sample takes the place of the profile.
register_face_from_frame_replaces(fa, f, frame, fault) ==
  LET d == detect_and_encode_face(frame, fault)
  IN IF d.encoding = None
       THEN [fa |-> fa, fs |-> f, success |-> FALSE, message |-> d.error]
       ELSE LET fa1 == [fa EXCEPT !.known_face_encodings = <<Get(d.encoding)>>]
            IN [fa |-> fa1, fs |-> save_encodings(fa1, f), success |-> TRUE,
                message |-> "Sample registered!"]

\* The registration_N.jpg picture saved beside the profile is left out.
register_face_from_frame(fa, f, frame, fault) ==
  LET d == detect_and_encode_face(frame, fault)
  IN IF d.encoding = None
       THEN [fa |-> fa, fs |-> f, success |-> FALSE, message |-> d.error]
       ELSE LET fa1 == [fa EXCEPT !.known_face_encodings = Append(@, Get(d.encoding))]
            IN [fa |-> fa1, fs |-> save_encodings(fa1, f), success |-> TRUE,
                message |-> "Sample registered!"]

\* ---- face verification ----
Abs(x) == IF x < 0 THEN -x ELSE x

\* face_recognition.face_distance: one distance per enrolled encoding.
face_distance(known, encoding) == [i \in DOMAIN known |-> Abs(known[i] - encoding)]

MinOf(distances) ==
  CHOOSE d \in {distances[i] : i \in DOMAIN distances} :
    \A i \in DOMAIN distances : d <= distances[i]

\* A variant of match_confidence that compares with the first sample only.
match_confidence_first_sample(known, encoding) ==
  LET best_distance == face_distance(known, encoding)[1]
  IN Max(0, Min(100, 100 - best_distance))

\* Lines 438-441: confidence = clamp((1 - best_distance) * 100, 0, 100).
match_confidence(known, encoding) ==
  LET best_distance == MinOf(face_distance(known, encoding))
  IN Max(0, Min(100, 100 - best_distance))

\* A variant of pin_unlock_offered that forgets the liveness condition.
pin_unlock_offered_unverified(fa, confidence) ==
  /\ confidence >= fa.face_only_threshold
  /\ fa.pin_enabled

\* Lines 447-451.
pin_unlock_offered(fa, confidence) ==
  /\ confidence >= fa.face_only_threshold
  /\ is_liveness_verified(fa)
  /\ fa.pin_enabled

\* A variant of log_attempt that opens the log for writing, not appending.
log_attempt_truncates(f, success, confidence, threshold, pin_unlock) ==
  [f EXCEPT !.auth_log =
     << [status |-> IF success THEN "OK" ELSE "FAIL",
         unlock |-> IF pin_unlock THEN "PIN" ELSE "PASS",
         confidence |-> confidence,
         threshold |-> threshold] >>]

\* A variant of log_attempt that records failures only.
log_attempt_failures_only(f, success, confidence, threshold, pin_unlock) ==
  IF success THEN f
  ELSE [f EXCEPT !.auth_log = Append(@,
         [status |-> "FAIL",
          unlock |-> IF pin_unlock THEN "PIN" ELSE "PASS",
          confidence |-> confidence,
          threshold |-> threshold])]

log_attempt(f, success, confidence, threshold, pin_unlock) ==
  [f EXCEPT !.auth_log = Append(@,
     [status |-> IF success THEN "OK" ELSE "FAIL",
      unlock |-> IF pin_unlock THEN "PIN" ELSE "PASS",
      confidence |-> confidence,
      threshold |-> threshold])]

\* The returned tuple with the state the call leaves; matcher tells whether
\* detect_and_encode_face was called, liveness what the liveness gate said.
VerifyResult(fa, f, success, confidence, message, can_use_pin, matcher) ==
  [fa |-> fa, fs |-> f, success |-> success, confidence |-> confidence,
   message |-> message, can_use_pin |-> can_use_pin, matcher |-> matcher,
   liveness |-> ""]

\* A variant of match_decision whose success leaves the attempt counter.
match_decision_keeps(fa, f, confidence, can_use_pin) ==
  IF confidence >= fa.min_confidence_threshold
    THEN VerifyResult(fa, f, TRUE, confidence,
                      IF can_use_pin THEN "Verified - PIN unlock available!" ELSE "Verified",
                      can_use_pin, TRUE)
    ELSE VerifyResult([fa EXCEPT !.current_attempt = @ + 1], f, FALSE, confidence,
                      "Low", FALSE, TRUE)

\* Lines 456-466: the decision taken on a computed confidence.
\* A variant of match_decision whose failure counts twice.
match_decision_counts_double(fa, f, confidence, can_use_pin) ==
  IF confidence >= fa.min_confidence_threshold
    THEN VerifyResult([fa EXCEPT !.current_attempt = 0], f, TRUE, confidence,
                      IF can_use_pin THEN "Verified - PIN unlock available!" ELSE "Verified",
                      can_use_pin, TRUE)
    ELSE VerifyResult([fa EXCEPT !.current_attempt = @ + 2], f, FALSE, confidence,
                      "Low", FALSE, TRUE)

\* A variant of match_decision whose failure returns the PIN offer as
\* computed.
match_decision_low_keeps_pin(fa, f, confidence, can_use_pin) ==
  IF confidence >= fa.min_confidence_threshold
    THEN VerifyResult([fa EXCEPT !.current_attempt = 0], f, TRUE, confidence,
                      IF can_use_pin THEN "Verified - PIN unlock available!" ELSE "Verified",
                      can_use_pin, TRUE)
    ELSE VerifyResult([fa EXCEPT !.current_attempt = @ + 1], f, FALSE, confidence,
                      "Low", can_use_pin, TRUE)

match_decision(fa, f, confidence, can_use_pin) ==
  IF confidence >= fa.min_confidence_threshold
    THEN VerifyResult([fa EXCEPT !.current_attempt = 0], f, TRUE, confidence,
                      IF can_use_pin THEN "Verified - PIN unlock available!" ELSE "Verified",
                      can_use_pin, TRUE)
    ELSE VerifyResult([fa EXCEPT !.current_attempt = @ + 1], f, FALSE, confidence,
                      "Low", FALSE, TRUE)

\* A variant of match_face in which a detection error counts as a failed
\* attempt.
match_face_error_counts(fa, f, frame, fault) ==
  LET det == detect_and_encode_face(frame, fault)
  IN IF det.error # ""
       THEN VerifyResult([fa EXCEPT !.current_attempt = @ + 1], f, FALSE, 0,
                         det.error, FALSE, TRUE)
     ELSE IF fault = "matchraise"
       THEN VerifyResult([fa EXCEPT !.current_attempt = @ + 1], f, FALSE, 0,
                         "Exception", FALSE, TRUE)
       ELSE LET confidence == match_confidence(fa.known_face_encodings, Get(det.encoding))
                can_use_pin == pin_unlock_offered(fa, confidence)
                f1 == log_attempt(f, confidence >= fa.min_confidence_threshold,
                                  confidence, fa.min_confidence_threshold, can_use_pin)
            IN match_decision(fa, f1, confidence, can_use_pin)

\* Lines 431-469: detection, encoding, distance comparison, logging, decision.
\* fault "matchraise": face_distance raises inside the try block (436-469),
\* before anything is logged or counted.
match_face(fa, f, frame, fault) ==
  LET det == detect_and_encode_face(frame, fault)
  IN IF det.error # ""
       THEN VerifyResult(fa, f, FALSE, 0, det.error, FALSE, TRUE)
     ELSE IF fault = "matchraise"
       THEN VerifyResult(fa, f, FALSE, 0, "Exception", FALSE, TRUE)
       ELSE LET confidence == match_confidence(fa.known_face_encodings, Get(det.encoding))
                can_use_pin == pin_unlock_offered(fa, confidence)
                f1 == log_attempt(f, confidence >= fa.min_confidence_threshold,
                                  confidence, fa.min_confidence_threshold, can_use_pin)
            IN match_decision(fa, f1, confidence, can_use_pin)

\* A variant of liveness_gate that lets every call through.
liveness_gate_open(fa, frame, fault) ==
  LivenessResult(fa, TRUE, fa.blink_counter, "")

\* Lines 425-429: the liveness gate in front of the matcher.
liveness_gate(fa, frame, fault) ==
  IF fa.liveness_enabled /\ ~fa.liveness_verified
    THEN check_liveness_frame(fa, frame, fault)
    ELSE LivenessResult(fa, TRUE, fa.blink_counter, "")

\* Variant: the liveness check runs before the profile is looked at.
verify_face_from_frame_liveness_first(fa, f, frame, faults) ==
  IF ~FACE_RECOGNITION_AVAILABLE
    THEN VerifyResult(fa, f, FALSE, 0, "Not available", FALSE, FALSE)
  ELSE LET live == liveness_gate(fa, frame, faults.liveness)
       IN IF ~is_registered(live.fa)
            THEN VerifyResult(live.fa, f, FALSE, 0, "No face registered", FALSE, FALSE)
          ELSE IF ~live.is_verified
            THEN [VerifyResult(live.fa, f, FALSE, 0, live.message, FALSE, FALSE)
                    EXCEPT !.liveness = live.message]
            ELSE [match_face(live.fa, f, frame, faults.detect)
                    EXCEPT !.liveness = live.message]

verify_face_from_frame(fa, f, frame, faults) ==
  IF ~FACE_RECOGNITION_AVAILABLE
    THEN VerifyResult(fa, f, FALSE, 0, "Not available", FALSE, FALSE)
  ELSE IF ~is_registered(fa)
    THEN VerifyResult(fa, f, FALSE, 0, "No face registered", FALSE, FALSE)
  ELSE LET live == liveness_gate(fa, frame, faults.liveness)
       IN IF ~live.is_verified
            THEN [VerifyResult(live.fa, f, FALSE, 0, live.message, FALSE, FALSE)
                    EXCEPT !.liveness = live.message]
            ELSE [match_face(live.fa, f, frame, faults.detect)
                    EXCEPT !.liveness = live.message]

\* A variant of get_face_confidence that counts a low preview as a failure.
get_face_confidence_counts(fa, f, frame, fault) ==
  IF ~FACE_RECOGNITION_AVAILABLE \/ ~is_registered(fa)
    THEN [fa |-> fa, fs |-> f, has_face |-> FALSE, confidence |-> 0, message |-> "N/A"]
  ELSE LET det == detect_and_encode_face(frame, fault)
       IN IF det.error # ""
            THEN [fa |-> fa, fs |-> f, has_face |-> FALSE, confidence |-> 0,
                  message |-> det.error]
          ELSE IF fault = "matchraise"
            THEN [fa |-> fa, fs |-> f, has_face |-> FALSE, confidence |-> 0,
                  message |-> "Error"]
          ELSE LET confidence == match_confidence(fa.known_face_encodings,
                                                  Get(det.encoding))
               IN [fa |-> IF confidence < fa.min_confidence_threshold
                            THEN [fa EXCEPT !.current_attempt = @ + 1] ELSE fa,
                   fs |-> f, has_face |-> TRUE, confidence |-> confidence,
                   message |-> "OK"]

\* get_face_confidence: the preview of the camera loop; the authenticator
\* and the files are returned as the call leaves them.
get_face_confidence(fa, f, frame, fault) ==
  IF ~FACE_RECOGNITION_AVAILABLE \/ ~is_registered(fa)
    THEN [fa |-> fa, fs |-> f, has_face |-> FALSE, confidence |-> 0, message |-> "N/A"]
  ELSE LET det == detect_and_encode_face(frame, fault)
       IN IF det.error # ""
            THEN [fa |-> fa, fs |-> f, has_face |-> FALSE, confidence |-> 0,
                  message |-> det.error]
          ELSE IF fault = "matchraise"
            THEN [fa |-> fa, fs |-> f, has_face |-> FALSE, confidence |-> 0,
                  message |-> "Error"]
          ELSE [fa |-> fa, fs |-> f, has_face |-> TRUE,
                confidence |-> match_confidence(fa.known_face_encodings,
                                                Get(det.encoding)),
                message |-> "OK"]

\* ---- utility ----
\* A variant of reset_attempts that forgets the liveness session.
reset_attempts_keeps_liveness(fa) == [fa EXCEPT !.current_attempt = 0]

reset_attempts(fa) == reset_liveness([fa EXCEPT !.current_attempt = 0])

\* A variant of is_locked_out that locks one failure late.
is_locked_out_late(fa) == fa.current_attempt > fa.max_attempts

is_locked_out(fa) == fa.current_attempt >= fa.max_attempts

reset_face_data(fa, f) ==
  [fa |-> [fa EXCEPT !.known_face_encodings = <<>>],
   fs |-> [f EXCEPT !.encodings_file = None]]

\* reset_all_data: the audit log file is unlinked, a missing log is the
\* empty one.
reset_all_data(fa, f) ==
  LET r1 == reset_face_data(fa, f)
      r2 == disable_quick_pin(r1.fa, r1.fs)
  IN [fa |-> r2.fa,
      fs |-> [r2.fs EXCEPT !.settings_file = None, !.auth_log = <<>>]]

\* ------------------------------------------------------------------------
\* src/vault_core.py.

\* hashlib.sha256(master_password.encode()), as a term over its input; the
\* hex digest is what master.hash stores.
sha256(master_password) == <<"sha256", master_password>>

save_master_password(f, master_password) ==
  [f EXCEPT !.master_hash = Some(sha256(master_password))]

\* Variant: every call writes the verifier of the passphrase it was given.
core_verify_master_password_overwrites(f, master_password) ==
  [fs |-> save_master_password(f, master_password),
   ok |-> (f.master_hash = None \/ Get(f.master_hash) = sha256(master_password))]

\* Variant: once a verifier exists every passphrase is accepted.
core_verify_master_password_accepts_any(f, master_password) ==
  IF f.master_hash = None
    THEN [fs |-> save_master_password(f, master_password), ok |-> TRUE]
    ELSE [fs |-> f, ok |-> TRUE]

\* vault_core.verify_master_password
core_verify_master_password(f, master_password) ==
  IF f.master_hash = None
    THEN [fs |-> save_master_password(f, master_password), ok |-> TRUE]
    ELSE [fs |-> f, ok |-> (Get(f.master_hash) = sha256(master_password))]

derive_key(master_password) == <<"urlsafe_b64encode", sha256(master_password)>>

EmptyVault == [service \in {} |-> [username |-> "", password |-> ""]]

\* json.dumps of the mapping: the members of the JSON object.
json_dumps(data) == { <<service, data[service]>> : service \in DOMAIN data }

json_loads(text) ==
  [service \in {m[1] : m \in text} |-> (CHOOSE m \in text : m[1] = service)[2]]

\* Fernet(key).encrypt: a token only the same key opens.
encrypt_data(data, key) == [fernet_key |-> key, plaintext |-> json_dumps(data)]

\* Variant: the token is opened without checking the key that sealed it.
decrypt_data_unauthenticated(enc_data, key) ==
  [ok |-> TRUE, data |-> json_loads(enc_data.plaintext)]

\* Fernet(key).decrypt raises on another key; ValueError is ok = FALSE.
decrypt_data(enc_data, key) ==
  IF enc_data.fernet_key = key
    THEN [ok |-> TRUE, data |-> json_loads(enc_data.plaintext)]
    ELSE [ok |-> FALSE, data |-> EmptyVault]

\* Variant: the vault file is not read.
load_vault_without_file(f, key) == [ok |-> TRUE, data |-> EmptyVault]

load_vault(f, key) ==
  IF f.vault_file = None THEN [ok |-> TRUE, data |-> EmptyVault]
  ELSE decrypt_data(Get(f.vault_file), key)

\* A variant of save_vault that encrypts under the key of one passphrase.
save_vault_fixed_key(f, data, key) ==
  [f EXCEPT !.vault_file = Some(encrypt_data(data, derive_key("a")))]

save_vault(f, data, key) == [f EXCEPT !.vault_file = Some(encrypt_data(data, key))]

\* What open(VAULT_FILE, "wb") leaves until the write reaches the file: an
\* empty or partly written file, which no key opens.
TruncatedBlob == [fernet_key |-> <<"truncated">>, plaintext |-> {}]

\* save_vault in a process that dies at `point`: while encrypt_data runs
\* (line 56), between the open and the completed write (57-58), or once the
\* file is written and closed.
save_vault_crash(f, data, key, point) ==
  IF point = "before_open" THEN f
  ELSE IF point = "after_open" THEN [f EXCEPT !.vault_file = Some(TruncatedBlob)]
  ELSE save_vault(f, data, key)

\* ------------------------------------------------------------------------
\* src/test_vault.py: the command-line vault.  A session is the key and the
\* vault main() holds while its menu loop runs.

\* Lines 6-17: the passphrase prompt up to the menu loop; session None when
\* main returned.
test_vault_main(f, master_password) ==
  LET v == core_verify_master_password(f, master_password)
  IN IF ~v.ok
       THEN [fs |-> v.fs, ok |-> FALSE, session |-> None,
             message |-> "Incorrect master password."]
       ELSE LET key == derive_key(master_password)
                loaded == load_vault(v.fs, key)
            IN IF ~loaded.ok
                 THEN [fs |-> v.fs, ok |-> TRUE, session |-> None,
                       message |-> "Incorrect master password or corrupted file."]
                 ELSE [fs |-> v.fs, ok |-> TRUE,
                       session |-> Some([key |-> key, vault |-> loaded.data]),
                       message |-> ""]

\* Lines 43-49: menu option 2.
test_vault_add(f, session, service, username, password) ==
  LET vault == [s \in DOMAIN session.vault \cup {service} |->
                  IF s = service THEN [username |-> username, password |-> password]
                                 ELSE session.vault[s]]
  IN [fs |-> save_vault(f, vault, session.key),
      session |-> [session EXCEPT !.vault = vault]]

\* ------------------------------------------------------------------------
\* src/gui_app.py: PasswordManagerGUI.  A handler takes the world w and
\* returns the world it leaves.

\* What a handler reports in `last`.
Did(op) ==
  [op |-> op, success |-> FALSE, confidence |-> 0, message |-> "",
   can_use_pin |-> FALSE, matcher |-> FALSE, liveness |-> "", reset |-> FALSE]

stop_camera(w) ==
  [w EXCEPT !.app.camera_running = FALSE, !.app.cap = FALSE,
            !.app.current_frame = NoFrame]

\* clear_screen stops the camera and destroys the widgets of the screen.
clear_screen(w) == stop_camera(w)

\* update_camera: one tick of the camera loop on the frame cap.read() gave
\* (NoFrame when it gave none); fault: the liveness check raises.
update_camera(w, frame, fault) ==
  IF ~w.app.camera_running \/ ~w.app.cap THEN w
  ELSE IF frame = NoFrame THEN w
  ELSE LET w1 == [w EXCEPT !.app.current_frame = frame]
       IN IF w1.app.face_auth.liveness_enabled /\ ~w1.app.registration_mode
            THEN [w1 EXCEPT !.app.face_auth = check_liveness_frame(@, frame, fault).fa]
            ELSE w1

\* start_camera: cam.opened says whether a capture device could be opened;
\* the first update_camera, on cam.frame with cam.fault, runs before
\* start_camera returns.
start_camera(w, cam) ==
  LET w1 == [w EXCEPT !.app.current_frame = NoFrame, !.app.camera_running = TRUE,
                      !.app.cap = cam.opened]
  IN IF ~cam.opened THEN w1 ELSE update_camera(w1, cam.frame, cam.fault)

face_login_screen(w, cam) ==
  LET w1 == clear_screen(w)
      w2 == [w1 EXCEPT !.app.registration_mode = FALSE,
                       !.app.face_auth = reset_attempts(@),
                       !.app.screen = "face_login",
                       !.last.reset = TRUE]
  IN start_camera(w2, cam)

login_screen(w) == [clear_screen(w) EXCEPT !.app.screen = "login"]

face_setup_screen(w, cam) ==
  LET w1 == clear_screen(w)
      w2 == [w1 EXCEPT !.app.registration_mode = TRUE, !.app.screen = "face_setup"]
  IN start_camera(w2, cam)

switch_to_password_login(w) == login_screen(stop_camera(w))

password_verification_after_face(w) ==
  [clear_screen(w) EXCEPT !.app.screen = "password_after_face"]

show_pin_entry(w) == [clear_screen(w) EXCEPT !.app.screen = "pin_entry"]

\* A variant of show_simple_password_prompt that opens the main screen.
show_simple_password_prompt_opens(w) ==
  [clear_screen(w) EXCEPT !.app.screen = "main"]

show_simple_password_prompt(w) ==
  [clear_screen(w) EXCEPT !.app.screen = "simple_password"]

\* A variant of main_screen that clears the attempt counter.
main_screen_resets(w) ==
  [clear_screen(w) EXCEPT !.app.screen = "main", !.app.face_auth.current_attempt = 0]

main_screen(w) == [clear_screen(w) EXCEPT !.app.screen = "main"]

\* root.after(500, callback)
root_after(w, callback) == [w EXCEPT !.after = Append(@, callback)]

\* A variant of verify_face_result that offers the PIN prompt whenever a PIN
\* is enabled.
verify_face_result_pin_when_enabled(w, r) ==
  LET w1 == [w EXCEPT !.app.face_auth = r.fa, !.fs = r.fs,
                      !.last.success = r.success, !.last.confidence = r.confidence,
                      !.last.message = r.message, !.last.can_use_pin = r.can_use_pin,
                      !.last.matcher = r.matcher, !.last.liveness = r.liveness]
  IN IF r.success
       THEN root_after(stop_camera(w1),
                       IF r.fa.pin_enabled THEN "show_pin_entry"
                                           ELSE "password_verification_after_face")
       ELSE IF is_locked_out(w1.app.face_auth)
              THEN switch_to_password_login(stop_camera(w1))
              ELSE w1

\* Lines 544-566 of verify_face: what the handler does with the result r of
\* verify_face_from_frame.
verify_face_result(w, r) ==
  LET w1 == [w EXCEPT !.app.face_auth = r.fa, !.fs = r.fs,
                      !.last.success = r.success, !.last.confidence = r.confidence,
                      !.last.message = r.message, !.last.can_use_pin = r.can_use_pin,
                      !.last.matcher = r.matcher, !.last.liveness = r.liveness]
  IN IF r.success
       THEN root_after(stop_camera(w1),
                       IF r.can_use_pin THEN "show_pin_entry"
                                        ELSE "password_verification_after_face")
       ELSE IF is_locked_out(w1.app.face_auth)
              THEN switch_to_password_login(stop_camera(w1))
              ELSE w1

\* A variant of verify_face without the lockout check of lines 531-535.
verify_face_ungated(w, faults) ==
  LET w0 == [w EXCEPT !.last = Did("verify_face")]
  IN IF w0.app.current_frame = NoFrame
       THEN [w0 EXCEPT !.last.message = "No frame available"]
     ELSE verify_face_result(w0,
            verify_face_from_frame(w0.app.face_auth, w0.fs, w0.app.current_frame, faults))

verify_face(w, faults) ==
  LET w0 == [w EXCEPT !.last = Did("verify_face")]
  IN IF is_locked_out(w0.app.face_auth)
       THEN [switch_to_password_login(stop_camera(w0)) EXCEPT !.last.message = "Locked Out"]
     ELSE IF w0.app.current_frame = NoFrame
       THEN [w0 EXCEPT !.last.message = "No frame available"]
     ELSE verify_face_result(w0,
            verify_face_from_frame(w0.app.face_auth, w0.fs, w0.app.current_frame, faults))

verify_pin_and_unlock(w, pin) ==
  LET w0 == [w EXCEPT !.last = Did("verify_pin_and_unlock")]
  IN IF pin = <<>>
       THEN [w0 EXCEPT !.last.message = "Please enter your PIN"]
       ELSE LET r == verify_pin(w0.app.face_auth, w0.fs, pin)
                w1 == [w0 EXCEPT !.last.success = r.success, !.last.message = r.message]
            IN IF r.success THEN show_simple_password_prompt(w1) ELSE w1

\* PasswordManagerGUI.verify_master_password
\* Variant: the error of a vault that fails to decrypt is reported and the
\* main screen opened all the same.
verify_master_password_opens_corrupt(w, pw) ==
  LET w0 == [w EXCEPT !.last = Did("verify_master_password")]
  IN IF pw = ""
       THEN [w0 EXCEPT !.last.message = "Please enter a password."]
       ELSE LET v == core_verify_master_password(w0.fs, pw)
                w1 == [w0 EXCEPT !.fs = v.fs]
            IN IF ~v.ok
                 THEN [w1 EXCEPT !.last.message = "Incorrect master password."]
                 ELSE LET w2 == [w1 EXCEPT !.app.key = derive_key(pw)]
                          loaded == load_vault(w2.fs, w2.app.key)
                      IN IF ~loaded.ok
                           THEN main_screen([w2 EXCEPT !.last.message =
                                               "Vault corrupted or invalid password."])
                           ELSE main_screen([w2 EXCEPT !.app.vault = loaded.data,
                                                       !.last.success = TRUE])

verify_master_password(w, pw) ==
  LET w0 == [w EXCEPT !.last = Did("verify_master_password")]
  IN IF pw = ""
       THEN [w0 EXCEPT !.last.message = "Please enter a password."]
       ELSE LET v == core_verify_master_password(w0.fs, pw)
                w1 == [w0 EXCEPT !.fs = v.fs]
            IN IF ~v.ok
                 THEN [w1 EXCEPT !.last.message = "Incorrect master password."]
                 ELSE LET w2 == [w1 EXCEPT !.app.key = derive_key(pw)]
                          loaded == load_vault(w2.fs, w2.app.key)
                      IN IF ~loaded.ok
                           THEN [w2 EXCEPT !.last.message = "Vault corrupted or invalid password."]
                           ELSE main_screen([w2 EXCEPT !.app.vault = loaded.data,
                                                       !.last.success = TRUE])

lock_vault(w, cam) ==
  LET w0 == [w EXCEPT !.last = Did("lock_vault"), !.app.vault = EmptyVault,
                      !.app.key = None]
  IN IF FACE_RECOGNITION_AVAILABLE /\ is_registered(w0.app.face_auth)
       THEN face_login_screen(w0, cam)
       ELSE login_screen(w0)

add_entry(w, service, username, password) ==
  LET w0 == [w EXCEPT !.last = Did("add_entry")]
      vault == [s \in DOMAIN w0.app.vault \cup {service} |->
                  IF s = service THEN [username |-> username, password |-> password]
                                 ELSE w0.app.vault[s]]
  IN [w0 EXCEPT !.app.vault = vault, !.fs = save_vault(@, vault, w0.app.key)]

\* delete_selected: selected is the focused row of the tree, "" when no row
\* has the focus; confirmed is the answer to the yes/no dialog.
delete_selected(w, selected, confirmed) ==
  LET w0 == [w EXCEPT !.last = Did("delete_selected")]
  IN IF selected = ""
       THEN [w0 EXCEPT !.last.message = "Please select an entry."]
     ELSE IF ~confirmed THEN w0
     ELSE LET vault == [s \in DOMAIN w0.app.vault \ {selected} |-> w0.app.vault[s]]
          IN [w0 EXCEPT !.app.vault = vault,
                        !.fs = save_vault(@, vault, w0.app.key),
                        !.last.success = TRUE,
                        !.last.message = "deleted."]

\* manage_face_auth: the buttons of the settings dialog.
setup_pin(w, pin, salt) ==
  LET w0 == [w EXCEPT !.last = Did("setup_pin")]
      r == setup_quick_pin(w0.app.face_auth, w0.fs, pin, salt)
  IN [w0 EXCEPT !.app.face_auth = r.fa, !.fs = r.fs,
                !.last.success = r.success, !.last.message = r.message]

disable_pin(w) ==
  LET w0 == [w EXCEPT !.last = Did("disable_pin")]
      r == disable_quick_pin(w0.app.face_auth, w0.fs)
  IN [w0 EXCEPT !.app.face_auth = r.fa, !.fs = r.fs]

toggle_liveness(w, enabled) ==
  LET w0 == [w EXCEPT !.last = Did("set_liveness_enabled")]
      r == set_liveness_enabled(w0.app.face_auth, w0.fs, enabled)
  IN [w0 EXCEPT !.app.face_auth = r.fa, !.fs = r.fs]

\* manage_face_auth: the Reset All button, confirmed.
reset_all(w) ==
  LET w0 == [w EXCEPT !.last = Did("reset_all")]
      r == reset_all_data(w0.app.face_auth, w0.fs)
  IN [w0 EXCEPT !.app.face_auth = r.fa, !.fs = r.fs]

\* skip_face_setup, confirmed.
skip_face_setup(w) ==
  login_screen(stop_camera([w EXCEPT !.last = Did("skip_face_setup")]))

\* PasswordManagerGUI.__init__ up to the choice of the first screen.
NewApp(f) ==
  [vault |-> EmptyVault, key |-> None, face_auth |-> FaceAuthenticator(f),
   camera_running |-> FALSE, cap |-> FALSE, current_frame |-> NoFrame,
   registration_mode |-> FALSE, screen |-> "none"]

PasswordManagerGUI(f, cam) ==
  LET w == [app |-> NewApp(f), fs |-> f, after |-> <<>>, last |-> Did("__init__")]
  IN IF FACE_RECOGNITION_AVAILABLE /\ is_registered(w.app.face_auth)
       THEN face_login_screen(w, cam)
       ELSE IF FACE_RECOGNITION_AVAILABLE THEN face_setup_screen(w, cam)
       ELSE login_screen(w)

\* ------------------------------------------------------------------------
\* The login flow as a state machine.

\* The settings.pkl a start-up may find: none, the defaults with
\* max_attempts configured to no attempt at all, or the defaults with the
\* liveness check switched off.
InitialSettings ==
  {None} \cup
  { Some([min_confidence_threshold |-> SECURITY_MEDIUM,
          face_only_threshold |-> FACE_ONLY_THRESHOLD,
          max_attempts |-> c[1],
          liveness_enabled |-> c[2],
          blinks_required |-> DEFAULT_BLINKS_REQUIRED,
          pin_enabled |-> FALSE]) :
      c \in {<<0, TRUE>>, <<DEFAULT_MAX_ATTEMPTS, FALSE>>} }

\* The vault the owner saved.
OwnerVault == [service \in Services |-> [username |-> "u", password |-> "p"]]

\* The files of an installation whose owner registered one face sample,
\* logged in with the master passphrase "a" and saved one entry.
InitialFiles ==
  { [encodings_file |-> Some(<<0>>), settings_file |-> s, pin_file |-> None,
     auth_log |-> <<>>, master_hash |-> Some(sha256("a")),
     vault_file |-> Some(encrypt_data(OwnerVault, derive_key("a")))] :
    s \in InitialSettings }

CameraFrames == LoginFrames \cup {NoFrame}

\* What a start of the camera meets.
CameraStarts == [opened : BOOLEAN, frame : CameraFrames, fault : BOOLEAN]

W == [app |-> app, fs |-> fs, after |-> after, last |-> last]

\* The observer's count of consecutive low-confidence results, kept from
\* what the handlers report.
CountLow(w, n) ==
  IF w.last.reset THEN 0
  ELSE IF w.last.op = "verify_face" /\ w.last.message = "Low" THEN n + 1
  ELSE IF w.last.op = "verify_face" /\ w.last.success THEN 0
  ELSE n

\* The observer's count of consecutive wrong PINs at one PIN prompt.
CountWrongPins(w, n) ==
  IF w.app.screen # "pin_entry" \/ w.last.op = "show_pin_entry" THEN 0
  ELSE IF w.last.op = "verify_pin_and_unlock" /\ w.last.message = "Incorrect PIN"
    THEN Min(PinGuessLimit, n + 1)
  ELSE n

\* What is kept of the state a handler starts in.
Snapshot ==
  [current_attempt |-> app.face_auth.current_attempt,
   liveness_verified |-> app.face_auth.liveness_verified,
   auth_log |-> fs.auth_log,
   key |-> app.key,
   screen |-> app.screen,
   after |-> after,
   wrong_pins |-> wrong_pins]

Step(w) ==
  /\ app' = w.app
  /\ fs' = w.fs
  /\ after' = w.after
  /\ last' = w.last
  /\ consecutive_low' = CountLow(w, consecutive_low)
  /\ wrong_pins' = CountWrongPins(w, wrong_pins)
  /\ before' = Snapshot
  /\ UNCHANGED <<observations, cli, first_passphrase, configured_pin>>

Init ==
  \E f \in InitialFiles, cam \in CameraStarts :
    LET w == PasswordManagerGUI(f, cam)
    IN /\ app = w.app
       /\ fs = w.fs
       /\ after = w.after
       /\ last = w.last
       /\ consecutive_low = 0
       /\ wrong_pins = 0
       /\ observations = <<>>
       /\ cli = None
       /\ first_passphrase = Some("a")
       /\ configured_pin = NoPin
       /\ before = [current_attempt |-> 0, liveness_verified |-> FALSE,
                    auth_log |-> f.auth_log, key |-> None, screen |-> "none",
                    after |-> <<>>, wrong_pins |-> 0]

UpdateCamera ==
  /\ app.camera_running /\ app.cap
  /\ \E frame \in CameraFrames, fault \in BOOLEAN :
       Step(update_camera([W EXCEPT !.last = Did("update_camera")], frame, fault))

VerifyFaceClick ==
  /\ app.screen = "face_login"
  /\ Len(fs.auth_log) < MaxLog
  /\ Len(after) < MaxAfter
  /\ \E faults \in LoginFaults : Step(verify_face(W, faults))

UsePasswordClick ==
  /\ app.screen = "face_login"
  /\ Step(switch_to_password_login([W EXCEPT !.last = Did("switch_to_password_login")]))

UseFaceClick ==
  /\ app.screen = "login"
  /\ FACE_RECOGNITION_AVAILABLE /\ is_registered(app.face_auth)
  /\ \E cam \in CameraStarts :
       Step(face_login_screen([W EXCEPT !.last = Did("face_login_screen")], cam))

\* The event loop runs the oldest scheduled callback.
AfterFires ==
  /\ after # <<>>
  /\ LET w == [W EXCEPT !.after = Tail(@), !.last = Did(Head(after))]
     IN IF Head(after) = "show_pin_entry"
          THEN Step(show_pin_entry(w))
          ELSE Step(password_verification_after_face(w))

PinSubmit ==
  /\ app.screen = "pin_entry"
  /\ \E pin \in GuessPins : Step(verify_pin_and_unlock(W, pin))

PinUsePasswordClick ==
  /\ app.screen = "pin_entry"
  /\ Step(password_verification_after_face([W EXCEPT !.last = Did("use_password")]))

PasswordSubmit ==
  /\ app.screen \in {"login", "password_after_face", "simple_password"}
  /\ \E pw \in Passphrases : Step(verify_master_password(W, pw))

LockClick ==
  /\ app.screen = "main"
  /\ \E cam \in CameraStarts : Step(lock_vault(W, cam))

SetupPin ==
  /\ app.screen = "main"
  /\ ~app.face_auth.pin_enabled
  /\ \E pin \in SetupPins, salt \in Salts : Step(setup_pin(W, pin, salt))

Next ==
  \/ UpdateCamera
  \/ VerifyFaceClick
  \/ UsePasswordClick
  \/ UseFaceClick
  \/ AfterFires
  \/ PinSubmit
  \/ PinUsePasswordClick
  \/ PasswordSubmit
  \/ LockClick
  \/ SetupPin

Spec == Init /\ [][Next]_vars

\* ------------------------------------------------------------------------
\* The login flow with the Reset All button of the settings dialog.

ResetAllClick ==
  /\ app.screen = "main"
  /\ Step(reset_all(W))

NextReset ==
  \/ Next
  \/ ResetAllClick

SpecReset == Init /\ [][NextReset]_vars

\* ------------------------------------------------------------------------
\* One FaceAuthenticator driven frame by frame (SpecLiveness): its callers
\* feed frames to check_liveness_frame and to verify_face_from_frame, reset
\* the session and switch the liveness check on and off.

MaxObservations == 4     \* eye observations a session processes before a reset
MaxBlinksRequired == 3   \* blinks_required values 1..this found in settings.pkl

\* Eyes exactly at, above and below the threshold, no face, no eyes.
LivenessFrames ==
  { Frame("ok", 220, 220, "one", <<20>>),
    Frame("ok", 300, 300, "one", <<20>>),
    Frame("ok", 300, 100, "one", <<20>>),
    Frame("ok", 0, 0, "one", <<20>>),
    Frame("none", 0, 0, "none", <<>>),
    Frame("short", 0, 0, "one", <<20>>) }

\* What a frame shows of the eyes.
Observation(frame) ==
  IF frame.landmarks # "ok" THEN "none"
  ELSE IF (frame.left_ear + frame.right_ear) \div 2 < EAR_THRESHOLD THEN "closed"
  ELSE "open"

\* A call of check_liveness_frame gets as far as the blink detection.
Processed(fa, frame, fault) ==
  /\ fa.liveness_enabled /\ ~fa.liveness_verified
  /\ ~fault
  /\ Observation(frame) # "none"

LivenessSettings ==
  { Some([min_confidence_threshold |-> SECURITY_MEDIUM,
          face_only_threshold |-> FACE_ONLY_THRESHOLD,
          max_attempts |-> DEFAULT_MAX_ATTEMPTS,
          liveness_enabled |-> e,
          blinks_required |-> b,
          pin_enabled |-> FALSE]) :
      e \in BOOLEAN, b \in 1..MaxBlinksRequired }

LivenessFiles ==
  { [encodings_file |-> Some(<<0>>), settings_file |-> s, pin_file |-> None,
     auth_log |-> <<>>, master_hash |-> None, vault_file |-> None] :
    s \in LivenessSettings }

LivenessDid(op) ==
  [op |-> op, is_verified |-> FALSE, blink_count |-> 0, message |-> "",
   observation |-> "none", fault |-> FALSE, processed |-> FALSE,
   matcher |-> FALSE, success |-> FALSE]

\* The authenticator fa and the files f a call leaves, what it reported and
\* the observations processed.
LivenessStep(fa, f, did, obs) ==
  /\ app' = [app EXCEPT !.face_auth = fa]
  /\ fs' = f
  /\ last' = did
  /\ observations' = obs
  /\ before' = [fa |-> app.face_auth, auth_log |-> fs.auth_log]
  /\ UNCHANGED <<after, consecutive_low, wrong_pins, cli, first_passphrase,
                 configured_pin>>

LivenessInit ==
  \E f \in LivenessFiles :
    /\ app = NewApp(f)
    /\ fs = f
    /\ after = <<>>
    /\ last = LivenessDid("__init__")
    /\ before = [fa |-> FaceAuthenticator(f), auth_log |-> f.auth_log]
    /\ consecutive_low = 0
    /\ wrong_pins = 0
    /\ observations = <<>>
    /\ cli = None
    /\ first_passphrase = None
    /\ configured_pin = NoPin

CheckLivenessFrame ==
  /\ Len(observations) < MaxObservations
  /\ \E frame \in LivenessFrames, fault \in BOOLEAN :
       LET r == check_liveness_frame(app.face_auth, frame, fault)
           processed == Processed(app.face_auth, frame, fault)
       IN LivenessStep(r.fa, fs,
            [LivenessDid("check_liveness_frame") EXCEPT
               !.is_verified = r.is_verified, !.blink_count = r.blink_count,
               !.message = r.message, !.observation = Observation(frame),
               !.fault = fault, !.processed = processed],
            IF processed THEN Append(observations, Observation(frame))
                         ELSE observations)

VerifyFaceFromFrame ==
  /\ Len(observations) < MaxObservations
  /\ Len(fs.auth_log) < MaxLog
  /\ \E frame \in LivenessFrames, faults \in LoginFaults :
       LET r == verify_face_from_frame(app.face_auth, fs, frame, faults)
           processed == Processed(app.face_auth, frame, faults.liveness)
       IN LivenessStep(r.fa, r.fs,
            [LivenessDid("verify_face_from_frame") EXCEPT
               !.message = r.message, !.observation = Observation(frame),
               !.fault = faults.liveness, !.processed = processed,
               !.matcher = r.matcher, !.success = r.success],
            IF processed THEN Append(observations, Observation(frame))
                         ELSE observations)

ResetLiveness ==
  LivenessStep(reset_liveness(app.face_auth), fs, LivenessDid("reset_liveness"), <<>>)

SetLivenessEnabled ==
  \E enabled \in BOOLEAN :
    LET r == set_liveness_enabled(app.face_auth, fs, enabled)
    IN LivenessStep(r.fa, r.fs, LivenessDid("set_liveness_enabled"), observations)

NextLiveness ==
  \/ CheckLivenessFrame
  \/ VerifyFaceFromFrame
  \/ ResetLiveness
  \/ SetLivenessEnabled

SpecLiveness == LivenessInit /\ [][NextLiveness]_vars

\* ------------------------------------------------------------------------
\* A new installation used through the GUI and through test_vault.py
\* (SpecVault): no face registered, no verifier, no vault.

VaultPasswords == {"p", "q"}

NewFiles ==
  [encodings_file |-> None, settings_file |-> None, pin_file |-> None,
   auth_log |-> <<>>, master_hash |-> None, vault_file |-> None]

\* What a call of test_vault.py reports in `last`.
CliDid(op, passphrase, ok, message) ==
  [op |-> op, passphrase |-> passphrase, ok |-> ok, message |-> message]

\* The passphrase of the first call of vault_core.verify_master_password.
FirstCall(passphrase) ==
  IF first_passphrase = None THEN Some(passphrase) ELSE first_passphrase

VaultStep(w, session, first) ==
  /\ app' = w.app
  /\ fs' = w.fs
  /\ after' = w.after
  /\ last' = w.last
  /\ cli' = session
  /\ first_passphrase' = first
  /\ before' = [fs |-> fs, key |-> app.key, vault |-> app.vault, screen |-> app.screen,
                cli |-> cli, first_passphrase |-> first_passphrase]
  /\ UNCHANGED <<consecutive_low, wrong_pins, observations, configured_pin>>

VaultInit ==
  \E cam \in CameraStarts :
    LET w == PasswordManagerGUI(NewFiles, cam)
    IN /\ app = w.app
       /\ fs = w.fs
       /\ after = w.after
       /\ last = w.last
       /\ cli = None
       /\ first_passphrase = None
       /\ configured_pin = NoPin
       /\ before = [fs |-> NewFiles, key |-> None, vault |-> EmptyVault,
                    screen |-> "none", cli |-> None, first_passphrase |-> None]
       /\ consecutive_low = 0
       /\ wrong_pins = 0
       /\ observations = <<>>

SkipFaceSetupClick ==
  /\ app.screen = "face_setup"
  /\ VaultStep(skip_face_setup(W), cli, first_passphrase)

\* The Unlock button of the passphrase login; an empty entry does not reach
\* vault_core.verify_master_password.
VaultPasswordSubmit ==
  /\ app.screen = "login"
  /\ \E pw \in Passphrases :
       VaultStep(verify_master_password(W, pw), cli,
                 IF pw = "" THEN first_passphrase ELSE FirstCall(pw))

VaultAddEntry ==
  /\ app.screen = "main"
  /\ \E service \in Services, password \in VaultPasswords :
       VaultStep(add_entry(W, service, "u", password), cli, first_passphrase)

VaultDeleteEntry ==
  /\ app.screen = "main"
  /\ \E selected \in DOMAIN app.vault \cup {""}, confirmed \in BOOLEAN :
       VaultStep(delete_selected(W, selected, confirmed), cli, first_passphrase)

VaultLockClick ==
  /\ app.screen = "main"
  /\ \E cam \in CameraStarts : VaultStep(lock_vault(W, cam), cli, first_passphrase)

VaultResetAllClick ==
  /\ app.screen = "main"
  /\ VaultStep(reset_all(W), cli, first_passphrase)

\* test_vault.py is started and the passphrase entered at its prompt.
CliMain ==
  /\ cli = None
  /\ \E pw \in Passphrases :
       LET r == test_vault_main(fs, pw)
       IN VaultStep([W EXCEPT !.fs = r.fs,
                              !.last = CliDid("test_vault.main", pw, r.ok, r.message)],
                    r.session, FirstCall(pw))

CliAddEntry ==
  /\ cli # None
  /\ \E service \in Services, password \in VaultPasswords :
       LET r == test_vault_add(fs, Get(cli), service, "u", password)
       IN VaultStep([W EXCEPT !.fs = r.fs,
                              !.last = CliDid("test_vault.add", "", TRUE, "Saved.")],
                    Some(r.session), first_passphrase)

CliExit ==
  /\ cli # None
  /\ VaultStep([W EXCEPT !.last = CliDid("test_vault.exit", "", TRUE, "")],
               None, first_passphrase)

NextVault ==
  \/ SkipFaceSetupClick
  \/ VaultPasswordSubmit
  \/ VaultAddEntry
  \/ VaultDeleteEntry
  \/ VaultLockClick
  \/ VaultResetAllClick
  \/ CliMain
  \/ CliAddEntry
  \/ CliExit

SpecVault == VaultInit /\ [][NextVault]_vars

\* ------------------------------------------------------------------------
\* SpecVault with processes that die while they save the vault (SpecCrash).

CrashPoints == {"before_open", "after_open", "after_write"}

\* What a step that ends in a crash reports: where save_vault was and the
\* blob it was writing.
CrashDid(point, new_blob) ==
  [op |-> "save_vault.crash", point |-> point, new_blob |-> new_blob]

\* test_vault.py dies in the save_vault of menu option 2.
CliAddEntryCrash ==
  /\ cli # None
  /\ \E service \in Services, password \in VaultPasswords, point \in CrashPoints :
       LET r == test_vault_add(fs, Get(cli), service, "u", password)
           f == save_vault_crash(fs, r.session.vault, r.session.key, point)
       IN VaultStep([W EXCEPT !.fs = f,
                              !.last = CrashDid(point, Get(r.fs.vault_file))],
                    None, first_passphrase)

\* The GUI dies in the save_vault of add_entry and is started again.
VaultAddEntryCrash ==
  /\ app.screen = "main"
  /\ \E service \in Services, password \in VaultPasswords, point \in CrashPoints,
        cam \in CameraStarts :
       LET r == add_entry(W, service, "u", password)
           f == save_vault_crash(fs, r.app.vault, r.app.key, point)
       IN VaultStep([PasswordManagerGUI(f, cam) EXCEPT
                       !.last = CrashDid(point, Get(r.fs.vault_file))],
                    cli, first_passphrase)

NextCrash ==
  \/ NextVault
  \/ CliAddEntryCrash
  \/ VaultAddEntryCrash

SpecCrash == VaultInit /\ [][NextCrash]_vars

\* ------------------------------------------------------------------------
\* The quick PIN of a FaceAuthenticator driven directly (SpecPin).

Pin123456 == <<"1", "2", "3", "4", "5", "6">>

\* PINs given to setup_quick_pin and verify_pin: empty, too short, with a
\* letter, too long, and three well-formed ones.
PinInputs ==
  { <<>>, <<"1", "2">>, <<"1", "2", "a", "4">>,
    <<"1", "2", "3", "4", "5", "6", "7">>, Pin1234, Pin9999, Pin123456 }

\* Values of os.urandom(16).
PinSalts == {"s1", "s2"}

PinDid(op, pin) == [op |-> op, pin |-> pin, success |-> FALSE, message |-> ""]

PinStep(fa, f, did, configured) ==
  /\ app' = [app EXCEPT !.face_auth = fa]
  /\ fs' = f
  /\ last' = did
  /\ configured_pin' = configured
  /\ before' = [fa |-> app.face_auth, fs |-> fs, configured_pin |-> configured_pin]
  /\ UNCHANGED <<after, consecutive_low, wrong_pins, observations, cli,
                 first_passphrase>>

PinInit ==
  /\ app = NewApp(NewFiles)
  /\ fs = NewFiles
  /\ after = <<>>
  /\ last = PinDid("__init__", <<>>)
  /\ before = [fa |-> FaceAuthenticator(NewFiles), fs |-> NewFiles,
               configured_pin |-> NoPin]
  /\ consecutive_low = 0
  /\ wrong_pins = 0
  /\ observations = <<>>
  /\ cli = None
  /\ first_passphrase = None
  /\ configured_pin = NoPin

SetupQuickPin ==
  \E pin \in PinInputs, salt \in PinSalts :
    LET r == setup_quick_pin(app.face_auth, fs, pin, salt)
    IN PinStep(r.fa, r.fs,
               [PinDid("setup_quick_pin", pin) EXCEPT !.success = r.success,
                                                      !.message = r.message],
               IF r.success THEN [configured_pin EXCEPT !.current = Some(pin)]
                            ELSE configured_pin)

VerifyPin ==
  \E pin \in PinInputs :
    LET r == verify_pin(app.face_auth, fs, pin)
    IN PinStep(app.face_auth, fs,
               [PinDid("verify_pin", pin) EXCEPT !.success = r.success,
                                                 !.message = r.message],
               configured_pin)

\* The PIN a disable removes is remembered as the former one.
Removed ==
  IF configured_pin.current = None THEN configured_pin
  ELSE [current |-> None, former |-> configured_pin.current]

DisableQuickPin ==
  LET r == disable_quick_pin(app.face_auth, fs)
  IN PinStep(r.fa, r.fs, [PinDid("disable_quick_pin", <<>>) EXCEPT !.success = TRUE],
             Removed)

ResetAllData ==
  LET r == reset_all_data(app.face_auth, fs)
  IN PinStep(r.fa, r.fs, [PinDid("reset_all_data", <<>>) EXCEPT !.success = TRUE],
             Removed)

\* The program is started again: a new authenticator loads the files.
Construct ==
  PinStep(FaceAuthenticator(fs), fs, PinDid("__init__", <<>>), configured_pin)

NextPin ==
  \/ SetupQuickPin
  \/ VerifyPin
  \/ DisableQuickPin
  \/ ResetAllData
  \/ Construct

SpecPin == PinInit /\ [][NextPin]_vars

\* ------------------------------------------------------------------------
\* The settings of a FaceAuthenticator driven directly (SpecSettings): the
\* setters of the settings dialog beside the operations of SpecPin.

\* Levels given to set_security_level: medium, maximum, out of range.
SecurityLevels == {60, 90, 150}

\* Values of the blinks spinbox and beyond it on both sides.
BlinkCounts == {0, 3, 7}

SettingsSetSecurityLevel ==
  \E level \in SecurityLevels :
    LET r == set_security_level(app.face_auth, fs, level)
    IN PinStep(r.fa, r.fs,
               [PinDid("set_security_level", <<>>) EXCEPT !.success = r.ok],
               configured_pin)

SettingsSetLivenessEnabled ==
  \E enabled \in BOOLEAN :
    LET r == set_liveness_enabled(app.face_auth, fs, enabled)
    IN PinStep(r.fa, r.fs,
               [PinDid("set_liveness_enabled", <<>>) EXCEPT !.success = TRUE],
               configured_pin)

SettingsSetBlinksRequired ==
  \E count \in BlinkCounts :
    LET r == set_blinks_required(app.face_auth, fs, count)
    IN PinStep(r.fa, r.fs,
               [PinDid("set_blinks_required", <<>>) EXCEPT !.success = TRUE],
               configured_pin)

SettingsSetupQuickPin ==
  LET r == setup_quick_pin(app.face_auth, fs, Pin1234, "s1")
  IN PinStep(r.fa, r.fs,
             [PinDid("setup_quick_pin", Pin1234) EXCEPT !.success = r.success,
                                                        !.message = r.message],
             [configured_pin EXCEPT !.current = Some(Pin1234)])

NextSettings ==
  \/ SettingsSetSecurityLevel
  \/ SettingsSetLivenessEnabled
  \/ SettingsSetBlinksRequired
  \/ SettingsSetupQuickPin
  \/ DisableQuickPin
  \/ ResetAllData
  \/ Construct

SpecSettings == PinInit /\ [][NextSettings]_vars

\* ------------------------------------------------------------------------
\* The face profile of a FaceAuthenticator driven directly (SpecProfile).

MaxSamples == 2          \* samples registered before registration stops
MaxFailures == 2         \* failed matches counted before matching stops

\* Two faces 50 hundredths apart with open eyes, the first with closed eyes,
\* a face that cannot be encoded, no face, several faces.
ProfileFrames ==
  { Frame("ok", 220, 220, "one", <<20>>),
    Frame("ok", 220, 220, "one", <<70>>),
    Frame("ok", 300, 100, "one", <<20>>),
    Frame("ok", 220, 220, "one", <<>>),
    Frame("none", 0, 0, "none", <<>>),
    Frame("short", 0, 0, "many", <<>>) }

\* What the detection step of a registration does.
RegisterFaults == {"ok", "loadfail", "raise"}

ProfileDid(op, frame) ==
  [op |-> op, frame |-> frame, success |-> FALSE, message |-> "",
   matcher |-> FALSE, liveness |-> ""]

ProfileStep(fa, f, did) ==
  /\ app' = [app EXCEPT !.face_auth = fa]
  /\ fs' = f
  /\ last' = did
  /\ before' = [fa |-> app.face_auth, fs |-> fs]
  /\ UNCHANGED <<after, consecutive_low, wrong_pins, observations, cli,
                 first_passphrase, configured_pin>>

ProfileInit ==
  /\ app = NewApp(NewFiles)
  /\ fs = NewFiles
  /\ after = <<>>
  /\ last = ProfileDid("__init__", NoFrame)
  /\ before = [fa |-> FaceAuthenticator(NewFiles), fs |-> NewFiles]
  /\ consecutive_low = 0
  /\ wrong_pins = 0
  /\ observations = <<>>
  /\ cli = None
  /\ first_passphrase = None
  /\ configured_pin = NoPin

RegisterFaceFromFrame ==
  /\ Len(app.face_auth.known_face_encodings) < MaxSamples
  /\ \E frame \in ProfileFrames, fault \in RegisterFaults :
       LET r == register_face_from_frame(app.face_auth, fs, frame, fault)
       IN ProfileStep(r.fa, r.fs,
            [ProfileDid("register_face_from_frame", frame) EXCEPT
               !.success = r.success, !.message = r.message])

ProfileVerifyFaceFromFrame ==
  /\ Len(fs.auth_log) < MaxLog
  /\ app.face_auth.current_attempt < MaxFailures
  /\ \E frame \in ProfileFrames, faults \in LoginFaults :
       LET r == verify_face_from_frame(app.face_auth, fs, frame, faults)
       IN ProfileStep(r.fa, r.fs,
            [ProfileDid("verify_face_from_frame", frame) EXCEPT
               !.success = r.success, !.message = r.message,
               !.matcher = r.matcher, !.liveness = r.liveness])

ResetFaceData ==
  LET r == reset_face_data(app.face_auth, fs)
  IN ProfileStep(r.fa, r.fs,
       [ProfileDid("reset_face_data", NoFrame) EXCEPT !.success = TRUE])

ProfileResetAllData ==
  LET r == reset_all_data(app.face_auth, fs)
  IN ProfileStep(r.fa, r.fs,
       [ProfileDid("reset_all_data", NoFrame) EXCEPT !.success = TRUE])

\* The program is started again: a new authenticator loads the files.
ProfileConstruct ==
  ProfileStep(FaceAuthenticator(fs), fs, ProfileDid("__init__", NoFrame))

NextProfile ==
  \/ RegisterFaceFromFrame
  \/ ProfileVerifyFaceFromFrame
  \/ ResetFaceData
  \/ ProfileResetAllData
  \/ ProfileConstruct

SpecProfile == ProfileInit /\ [][NextProfile]_vars

\* ------------------------------------------------------------------------
\* Matching on a FaceAuthenticator driven directly (SpecMatch): two samples
\* enrolled 100 hundredths apart, one blink required, the confidence
\* threshold set through set_security_level.

MaxMatchLog == 1         \* calls that would make the log longer are left out

\* Embeddings a frame may carry: an enrolled sample, and points at distance
\* 50, 15 and 150 from the nearest enrolled sample.
MatchEncodings == {0, 50, 115, 250}

MatchFrames ==
  { Frame("ok", 220, 220, "one", <<e>>) : e \in MatchEncodings }
  \cup { Frame("ok", 300, 100, "one", <<0>>),
         Frame("ok", 220, 220, "one", <<>>),
         Frame("none", 0, 0, "none", <<>>),
         Frame("short", 0, 0, "many", <<>>) }

\* The faults of one call: the liveness check fails open, the detector
\* raises, the comparison raises.
MatchFaults ==
  { [liveness |-> FALSE, detect |-> "ok"],
    [liveness |-> TRUE, detect |-> "ok"],
    [liveness |-> TRUE, detect |-> "raise"],
    [liveness |-> FALSE, detect |-> "matchraise"] }

\* Every frame without a fault, and every fault on two well-formed frames.
MatchCalls ==
  { [frame |-> frame, faults |-> [liveness |-> FALSE, detect |-> "ok"]] :
      frame \in MatchFrames }
  \cup { [frame |-> Frame("ok", 220, 220, "one", <<e>>), faults |-> faults] :
           e \in {0, 115}, faults \in MatchFaults }

\* The files of an installation with two samples and liveness detection on,
\* with and without a quick PIN.
MatchFiles ==
  { [encodings_file |-> Some(<<0, 100>>),
     settings_file |-> Some([min_confidence_threshold |-> SECURITY_MEDIUM,
                             face_only_threshold |-> FACE_ONLY_THRESHOLD,
                             max_attempts |-> DEFAULT_MAX_ATTEMPTS,
                             liveness_enabled |-> TRUE,
                             blinks_required |-> 1,
                             pin_enabled |-> pin # None]),
     pin_file |-> pin, auth_log |-> <<>>, master_hash |-> None,
     vault_file |-> None] :
    pin \in {None, Some([pin_hash |-> pbkdf2_hmac(Pin1234, "s1"), salt |-> "s1"])} }

MatchDid(op, frame, faults) ==
  [op |-> op, frame |-> frame, faults |-> faults, success |-> FALSE,
   confidence |-> 0, message |-> "", can_use_pin |-> FALSE, matcher |-> FALSE,
   liveness |-> ""]

NoFaults == [liveness |-> FALSE, detect |-> "ok"]

MatchStep(fa, f, did) ==
  /\ app' = [app EXCEPT !.face_auth = fa]
  /\ fs' = f
  /\ last' = did
  /\ before' = [fa |-> app.face_auth, fs |-> fs]
  /\ UNCHANGED <<after, consecutive_low, wrong_pins, observations, cli,
                 first_passphrase, configured_pin>>

MatchInit ==
  \E f \in MatchFiles :
    /\ app = NewApp(f)
    /\ fs = f
    /\ after = <<>>
    /\ last = MatchDid("__init__", NoFrame, NoFaults)
    /\ before = [fa |-> FaceAuthenticator(f), fs |-> f]
    /\ consecutive_low = 0
    /\ wrong_pins = 0
    /\ observations = <<>>
    /\ cli = None
    /\ first_passphrase = None
    /\ configured_pin = NoPin

MatchVerifyFaceFromFrame ==
  \E call \in MatchCalls :
    LET r == verify_face_from_frame(app.face_auth, fs, call.frame, call.faults)
    IN /\ Len(r.fs.auth_log) <= MaxMatchLog
       /\ r.fa.current_attempt <= MaxFailures
       /\ MatchStep(r.fa, r.fs,
            [MatchDid("verify_face_from_frame", call.frame, call.faults) EXCEPT
               !.success = r.success, !.confidence = r.confidence,
               !.message = r.message, !.can_use_pin = r.can_use_pin,
               !.matcher = r.matcher, !.liveness = r.liveness])

GetFaceConfidence ==
  \E call \in MatchCalls :
    LET r == get_face_confidence(app.face_auth, fs, call.frame, call.faults.detect)
    IN MatchStep(r.fa, r.fs,
         [MatchDid("get_face_confidence", call.frame, call.faults) EXCEPT
            !.success = r.has_face, !.confidence = r.confidence,
            !.message = r.message])

SetSecurityLevel ==
  \E level \in SecurityLevels :
    LET r == set_security_level(app.face_auth, fs, level)
    IN MatchStep(r.fa, r.fs,
         [MatchDid("set_security_level", NoFrame, NoFaults) EXCEPT !.success = r.ok])

ResetAttempts ==
  MatchStep(reset_attempts(app.face_auth), fs,
            MatchDid("reset_attempts", NoFrame, NoFaults))

NextMatch ==
  \/ MatchVerifyFaceFromFrame
  \/ GetFaceConfidence
  \/ SetSecurityLevel
  \/ ResetAttempts

SpecMatch == MatchInit /\ [][NextMatch]_vars

\* ------------------------------------------------------------------------
\* vault_core called directly with every mapping and key (SpecCrypto).
\* `last` is the call and its result, `before.saved` the mapping and the
\* passphrase of the latest save_vault.

CryptoServices == {"mail", "bank"}

Credentials == [username : {"u"}, password : VaultPasswords]

\* Every VaultRecord over the services, the empty one included.
Mappings == UNION { [S -> Credentials] : S \in SUBSET CryptoServices }

CryptoStep(f, did, saved) ==
  /\ fs' = f
  /\ last' = did
  /\ before' = [saved |-> saved]
  /\ UNCHANGED <<app, after, consecutive_low, wrong_pins, observations, cli,
                 first_passphrase, configured_pin>>

CryptoInit ==
  /\ app = NewApp(NewFiles)
  /\ fs = NewFiles
  /\ after = <<>>
  /\ last = [op |-> "none"]
  /\ before = [saved |-> None]
  /\ consecutive_low = 0
  /\ wrong_pins = 0
  /\ observations = <<>>
  /\ cli = None
  /\ first_passphrase = None
  /\ configured_pin = NoPin

\* encrypt_data under derive_key(p1), then decrypt_data under derive_key(p2).
EncryptDecrypt ==
  \E m \in Mappings, p1 \in Passphrases, p2 \in Passphrases :
    LET enc_data == encrypt_data(m, derive_key(p1))
        r == decrypt_data(enc_data, derive_key(p2))
    IN CryptoStep(fs, [op |-> "decrypt_data", data |-> m, passphrase |-> p1,
                       key |-> derive_key(p1), key_again |-> derive_key(p1),
                       other |-> derive_key(p2), ok |-> r.ok, result |-> r.data],
                  before.saved)

SaveVault ==
  \E m \in Mappings, p \in Passphrases :
    CryptoStep(save_vault(fs, m, derive_key(p)),
               [op |-> "save_vault", data |-> m, passphrase |-> p],
               Some([data |-> m, key |-> derive_key(p)]))

LoadVault ==
  \E p \in Passphrases :
    LET r == load_vault(fs, derive_key(p))
    IN CryptoStep(fs, [op |-> "load_vault", key |-> derive_key(p), ok |-> r.ok,
                       result |-> r.data],
                  before.saved)

NextCrypto ==
  \/ EncryptDecrypt
  \/ SaveVault
  \/ LoadVault

SpecCrypto == CryptoInit /\ [][NextCrypto]_vars

\* ------------------------------------------------------------------------
\* Properties of the login flow.  `last` is the most recent handler and what
\* it returned, `before` the state it started in.

\* The messages of verify_face_from_frame with which a confidence was
\* computed (lines 456-466).
DecisionMessages == {"Low", "Verified", "Verified - PIN unlock available!"}

\* The messages with which check_liveness_frame reports "not verified".
NotVerifiedMessages == {"No face for liveness", "Eyes not detected", "Blink more"}

LockedOutBefore == before.current_attempt >= app.face_auth.max_attempts

\* C1, as stated: a verify_face_from_frame call made while liveness is
\* enabled and the session is not yet liveness-verified does not invoke the
\* face matcher.
C1_NoMatchWhileLivenessOutstanding ==
  (last.op = "verify_face" /\ app.face_auth.liveness_enabled
     /\ ~before.liveness_verified)
    => ~last.matcher

\* C1, amended: the matcher is not invoked in a call whose liveness check
\* reports "not verified".  A call invokes the matcher only when liveness is
\* disabled, or the session is liveness-verified when matching starts (before
\* the call, or because the call's own frame completed the last blink), or
\* the call's liveness check failed open on an error, which lets the call
\* through without marking the session verified.
C1_LivenessGatesMatching ==
  last.op = "verify_face" =>
    /\ (last.liveness \in NotVerifiedMessages) => (~last.matcher /\ ~last.success)
    /\ last.matcher =>
         \/ ~app.face_auth.liveness_enabled
         \/ app.face_auth.liveness_verified
         \/ last.liveness = "Liveness check skipped"
    /\ (last.matcher /\ app.face_auth.liveness_enabled /\ ~before.liveness_verified)
         => last.liveness \in {"Liveness verified!", "Liveness check skipped"}

\* C1: a call made with liveness outstanding whose liveness check asked for
\* more blinks returned without the matcher.
C1_Witness ==
  /\ last.op = "verify_face"
  /\ app.face_auth.liveness_enabled /\ ~before.liveness_verified
  /\ last.liveness = "Blink more"
  /\ ~last.matcher

\* C2: counted from the last reset or success, the authenticator is locked
\* out exactly when the number of consecutive low-confidence results has
\* reached max_attempts, and not at any smaller number; the attempt counter is
\* that number.
C2_LockedOutAtMaxAttempts ==
  /\ app.face_auth.current_attempt = consecutive_low
  /\ is_locked_out(app.face_auth) <=> consecutive_low >= app.face_auth.max_attempts

\* C2: the third consecutive low-confidence result under the default
\* max_attempts locked the authenticator.
C2_Witness ==
  /\ last.op = "verify_face" /\ last.message = "Low"
  /\ app.face_auth.max_attempts = DEFAULT_MAX_ATTEMPTS
  /\ consecutive_low = DEFAULT_MAX_ATTEMPTS
  /\ is_locked_out(app.face_auth)

C4_LockoutLeftOnlyByReset ==
  (LockedOutBefore /\ ~last.reset) =>
    /\ app.face_auth.current_attempt = before.current_attempt
    /\ is_locked_out(app.face_auth)

\* C4: re-entering face login ended a lockout.
C4_Witness ==
  /\ LockedOutBefore
  /\ last.reset /\ last.op = "face_login_screen"
  /\ ~is_locked_out(app.face_auth)

\* C5: a match whose confidence is at least the threshold returns success
\* and leaves the attempt counter at zero; a success is such a match.
C5_SuccessResetsCounter ==
  last.op = "verify_face" =>
    /\ (last.message \in DecisionMessages
          /\ last.confidence >= app.face_auth.min_confidence_threshold)
         => (last.success /\ app.face_auth.current_attempt = 0)
    /\ last.success
         => (last.message \in DecisionMessages
               /\ last.confidence >= app.face_auth.min_confidence_threshold)

\* C5: a success came after failures and cleared the counter.
C5_Witness ==
  /\ last.op = "verify_face" /\ last.success
  /\ before.current_attempt > 0
  /\ app.face_auth.current_attempt = 0

\* C6: a successful match returns can_use_pin = true exactly when the
\* confidence is at least the PIN-unlock threshold, liveness is verified and
\* a PIN is enabled.
C6_CanUsePinTruthTable ==
  (last.op = "verify_face" /\ last.success) =>
    (last.can_use_pin <=>
       /\ last.confidence >= app.face_auth.face_only_threshold
       /\ is_liveness_verified(app.face_auth)
       /\ app.face_auth.pin_enabled)

\* C6: a successful match returned can_use_pin = true.
C6_Witness ==
  /\ last.op = "verify_face" /\ last.success /\ last.can_use_pin
  /\ last.confidence >= app.face_auth.face_only_threshold
  /\ app.face_auth.liveness_enabled /\ app.face_auth.liveness_verified
  /\ app.face_auth.pin_enabled

\* C7: the vault key is the key of a passphrase that matches the stored
\* verifier; the key is set, and the main screen with the vault's contents
\* opened, only by a verify_master_password step, the main screen only by one
\* that succeeded; a face match or a PIN verification changes neither.
C7_KeyOnlyFromVerifiedPassphrase ==
  /\ app.key # None =>
       \E pw \in Passphrases \ {""} :
         app.key = derive_key(pw) /\ fs.master_hash = Some(sha256(pw))
  /\ app.vault # EmptyVault => app.key # None
  /\ (app.key # None /\ app.key # before.key) => last.op = "verify_master_password"
  /\ (app.screen = "main" /\ before.screen # "main")
       => (last.op = "verify_master_password" /\ last.success)
  /\ last.op \in {"verify_face", "verify_pin_and_unlock"}
       => (app.key = before.key /\ app.screen # "main")

\* C7: a correct PIN was accepted and the vault stayed locked, a passphrase
\* prompt showing.
C7_Witness ==
  /\ last.op = "verify_pin_and_unlock" /\ last.success
  /\ app.key = None /\ app.vault = EmptyVault
  /\ app.screen = "simple_password"

\* C8, as stated: once PinGuessLimit consecutive wrong PINs were entered at
\* the PIN prompt, a further PIN is rejected without being checked.
C8_PinGuessesBounded ==
  (last.op = "verify_pin_and_unlock" /\ before.wrong_pins >= PinGuessLimit)
    => last.message \notin {"PIN verified!", "Incorrect PIN"}

\* C9: the PIN prompt is entered only by the show_pin_entry callback at the
\* head of the scheduled callbacks; verify_face schedules one callback after
\* a success and none otherwise, show_pin_entry if the result has
\* can_use_pin = true and the full passphrase prompt if not; no other handler
\* schedules a callback.
C9_PinPromptOnlyAfterPinEligibleMatch ==
  /\ (app.screen = "pin_entry" /\ before.screen # "pin_entry")
       => (last.op = "show_pin_entry" /\ before.after # <<>>
             /\ Head(before.after) = "show_pin_entry")
  /\ last.op = "verify_face" =>
       after = IF last.success
                 THEN Append(before.after,
                             IF last.can_use_pin THEN "show_pin_entry"
                             ELSE "password_verification_after_face")
                 ELSE before.after
  /\ last.op \in {"show_pin_entry", "password_verification_after_face"} =>
       /\ before.after # <<>> /\ last.op = Head(before.after)
       /\ after = Tail(before.after)
       /\ app.screen = IF last.op = "show_pin_entry" THEN "pin_entry"
                       ELSE "password_after_face"
  /\ last.op \notin {"verify_face", "show_pin_entry",
                     "password_verification_after_face"}
       => after = before.after

\* C9: with a PIN enabled, a successful match with can_use_pin = false
\* scheduled the full passphrase prompt.
C9_Witness ==
  /\ last.op = "verify_face" /\ last.success /\ ~last.can_use_pin
  /\ app.face_auth.pin_enabled
  /\ after = <<"password_verification_after_face">>

IsPrefix(s, t) == Len(s) <= Len(t) /\ SubSeq(t, 1, Len(s)) = s

\* C11: the audit log is append-only: every handler leaves the entries the
\* log had as a prefix of the log, unchanged and in order, except Reset All
\* (reset_all_data), which removes the log.
C11_AuditLogAppendOnly ==
  IF last.op = "reset_all"
    THEN fs.auth_log = <<>>
    ELSE IsPrefix(before.auth_log, fs.auth_log)

\* C11: a match was logged behind two earlier entries.
C11_Witness ==
  /\ last.op = "verify_face"
  /\ Len(before.auth_log) = 2
  /\ Len(fs.auth_log) = 3
  /\ IsPrefix(before.auth_log, fs.auth_log)

\* ------------------------------------------------------------------------
\* Properties of the liveness session (SpecLiveness).  `last` is the most
\* recent call with the frame's observation and the result, `before.fa` the
\* authenticator the call started on.

\* The closed-to-open transitions in a sequence of observations.
Blinks(obs) ==
  Cardinality({ i \in 1..(Len(obs) - 1) : obs[i] = "closed" /\ obs[i + 1] = "open" })

\* Blink counter, eye state and verified flag.
Progress(fa) == <<fa.blink_counter, fa.blink_state, fa.liveness_verified>>

\* C12: the blink counter of a session is the number of closed-to-open
\* transitions in the observations it processed since its reset: a processed
\* observation adds exactly one if it is open and the one before it was
\* closed, and nothing otherwise.
C12_BlinkPerClosedToOpen ==
  /\ app.face_auth.blink_counter = Blinks(observations)
  /\ last.processed =>
       app.face_auth.blink_counter =
         before.fa.blink_counter
         + (IF Len(observations) >= 2
                 /\ observations[Len(observations) - 1] = "closed"
                 /\ last.observation = "open"
              THEN 1 ELSE 0)

\* C12: [open, closed, closed, open] counted one blink.
C12_Witness ==
  /\ observations = <<"open", "closed", "closed", "open">>
  /\ app.face_auth.blink_counter = 1

C14_NoFaceKeepsProgress ==
  (last.op = "check_liveness_frame"
     /\ before.fa.liveness_enabled /\ ~before.fa.liveness_verified
     /\ ~last.fault /\ last.observation = "none")
    => /\ ~last.is_verified
       /\ last.blink_count = before.fa.blink_counter
       /\ last.message \in {"No face for liveness", "Eyes not detected"}
       /\ Progress(app.face_auth) = Progress(before.fa)

\* C14: the face was lost in the middle of a blink and the progress kept.
C14_Witness ==
  /\ last.op = "check_liveness_frame"
  /\ ~last.fault /\ last.observation = "none"
  /\ before.fa.liveness_enabled /\ ~before.fa.liveness_verified
  /\ before.fa.blink_counter = 1 /\ before.fa.blink_state = "closed"
  /\ ~last.is_verified
  /\ Progress(app.face_auth) = Progress(before.fa)

\* C15: a liveness check that raises while processing the frame returns
\* verified = true for that call.
C15_FailOpen ==
  (last.op = "check_liveness_frame" /\ last.fault
     /\ before.fa.liveness_enabled /\ ~before.fa.liveness_verified)
    => (last.is_verified /\ last.message = "Liveness check skipped")

\* C15: the check of an unverified session raised and answered verified.
C15_Witness ==
  /\ last.op = "check_liveness_frame" /\ last.fault
  /\ before.fa.liveness_enabled /\ ~before.fa.liveness_verified
  /\ before.fa.blink_counter = 0
  /\ last.is_verified

\* C16: with liveness disabled, liveness counts as verified, every frame is
\* answered verified whatever the session state, no call changes blink
\* counter, eye state or verified flag, and verify_face_from_frame goes on to
\* the matcher.
C16_DisabledIsAlwaysVerified ==
  /\ ~app.face_auth.liveness_enabled => is_liveness_verified(app.face_auth)
  /\ (last.op = "check_liveness_frame" /\ ~before.fa.liveness_enabled)
       => (last.is_verified /\ app.face_auth = before.fa)
  /\ (last.op = "verify_face_from_frame" /\ ~before.fa.liveness_enabled)
       => (last.matcher /\ Progress(app.face_auth) = Progress(before.fa))

\* C16: with liveness disabled a face was matched in a session without a
\* blink.
C16_Witness ==
  /\ last.op = "verify_face_from_frame"
  /\ ~before.fa.liveness_enabled
  /\ before.fa.blink_counter = 0 /\ ~before.fa.liveness_verified
  /\ last.matcher /\ last.success

\* ------------------------------------------------------------------------
\* Properties of the start of a face login (Spec).

\* The authenticator with a liveness session and an attempt counter that
\* saw nothing yet.
Fresh(fa) ==
  [fa EXCEPT !.current_attempt = 0, !.blink_counter = 0, !.blink_state = "open",
             !.liveness_verified = FALSE, !.last_ear = INITIAL_LAST_EAR]

\* C17: every entry into face login (program start, Use Face after a lockout
\* or after a fallback to the passphrase, Lock) resets the liveness session
\* before the first frame is evaluated: the handler leaves the authenticator
\* as a session with blink count 0, eyes open and verified flag false is
\* after the first camera frame, or untouched if the camera gave none.
C17_LivenessResetAtStart ==
  last.reset =>
    \E cam \in CameraStarts :
      app.face_auth =
        IF cam.opened /\ cam.frame # NoFrame /\ app.face_auth.liveness_enabled
          THEN check_liveness_frame(Fresh(app.face_auth), cam.frame, cam.fault).fa
          ELSE Fresh(app.face_auth)

\* C17: the vault was locked again after a login with a verified liveness
\* session, and the new face login starts unverified with no blink.
C17_Witness ==
  /\ last.op = "lock_vault" /\ last.reset
  /\ app.screen = "face_login"
  /\ before.liveness_verified
  /\ ~app.face_auth.liveness_verified
  /\ app.face_auth.blink_counter = 0

\* ------------------------------------------------------------------------
\* Properties of the master-passphrase verifier (SpecVault).

VerifyCalls == {"verify_master_password", "test_vault.main"}

\* C18: the verifier file is written once, by the verify_master_password
\* call that finds no verifier, and holds the verifier of the passphrase of
\* that call; once it exists no operation (a verify with the right or a wrong
\* passphrase, a load, a save, Reset All) changes or removes it.
C18_VerifierWrittenOnce ==
  /\ before.fs.master_hash # None => fs.master_hash = before.fs.master_hash
  /\ fs.master_hash # before.fs.master_hash =>
       /\ last.op \in VerifyCalls
       /\ before.first_passphrase = None
       /\ first_passphrase # None
       /\ fs.master_hash = Some(sha256(Get(first_passphrase)))

\* A verifier existed and a call with a wrong passphrase was rejected.
C18_Witness ==
  /\ before.fs.master_hash # None
  /\ last.op = "test_vault.main"
  /\ ~last.ok
  /\ last.passphrase # Get(first_passphrase)

\* C19: a verify_master_password call that finds no verifier returns true
\* for whatever passphrase it is given and stores that passphrase's verifier;
\* every later call returns true exactly when its passphrase is the one of
\* the first call.
C19_FirstPassphraseIsCanonical ==
  /\ last.op = "test_vault.main" =>
       IF before.first_passphrase = None
         THEN /\ last.ok
              /\ fs.master_hash = Some(sha256(last.passphrase))
         ELSE /\ last.ok <=> (last.passphrase = Get(before.first_passphrase))
              /\ fs.master_hash = before.fs.master_hash
  /\ (last.op = "verify_master_password" /\ last.success) =>
       \/ before.first_passphrase = None
       \/ app.key = derive_key(Get(before.first_passphrase))

\* A later call was given the passphrase of the first call and accepted.
C19_Witness ==
  /\ last.op = "test_vault.main"
  /\ before.first_passphrase # None
  /\ last.ok
  /\ last.passphrase = Get(before.first_passphrase)

\* C20: an empty passphrase is refused without changing anything: it never
\* becomes the stored verifier and never yields the key of a session.
C20_EmptyPassphraseRefused ==
  /\ fs.master_hash # Some(sha256(""))
  /\ app.key # derive_key("")
  /\ cli # None => Get(cli).key # derive_key("")
  /\ (last.op = "test_vault.main" /\ last.passphrase = "") =>
       /\ ~last.ok
       /\ fs = before.fs
       /\ cli = before.cli

\* ------------------------------------------------------------------------
\* Properties of the vault encryption (SpecCrypto).

C23_SaveVaultCrashAtomic ==
  last.op = "save_vault.crash" =>
    /\ fs.vault_file \in {before.fs.vault_file, Some(last.new_blob)}
    /\ fs.vault_file # Some(TruncatedBlob)

DecryptionFailures ==
  {"Vault corrupted or invalid password.", "Incorrect master password or corrupted file."}

\* C24: an unlock that fails because the vault does not decrypt leaves the
\* vault file as it was, shows no vault (the GUI stays on the passphrase
\* login with an empty vault, test_vault.py ends without a session) and can
\* be tried again; no step removes the vault file.
C24_FailedUnlockKeepsVaultFile ==
  /\ before.fs.vault_file # None => fs.vault_file # None
  /\ (last.op \in VerifyCalls /\ last.message \in DecryptionFailures) =>
       /\ fs = before.fs
       /\ cli = before.cli
       /\ last.op = "test_vault.main" => cli = None
       /\ last.op = "verify_master_password" =>
            /\ app.screen = "login"
            /\ app.vault = EmptyVault

\* The GUI accepted the passphrase and could not decrypt the vault file.
C24_Witness ==
  /\ last.op = "verify_master_password"
  /\ last.message = "Vault corrupted or invalid password."
  /\ fs.vault_file = Some(TruncatedBlob)

\* ------------------------------------------------------------------------
\* Properties of the quick PIN (SpecPin).

\* A PIN of 4 to 6 characters, all of them digits.
WellFormedPin(pin) ==
  /\ Len(pin) \in 4..6
  /\ \A i \in 1..Len(pin) : pin[i] \in Digits

RejectionMessages == {"PIN must contain only digits", "PIN must be 4-6 digits"}

\* C25: setup_quick_pin answers a PIN that is not all digits or not 4 to 6
\* long with an error result and writes nothing: the PIN file, the
\* pin_enabled flag and the settings are as before.
C25_MalformedPinRejected ==
  (last.op = "setup_quick_pin" /\ ~WellFormedPin(last.pin)) =>
    /\ ~last.success
    /\ last.message \in RejectionMessages
    /\ app.face_auth = before.fa
    /\ fs = before.fs

\* A malformed PIN was rejected while another PIN was configured.
C25_Witness ==
  /\ last.op = "setup_quick_pin"
  /\ ~WellFormedPin(last.pin)
  /\ Len(last.pin) > 0
  /\ before.configured_pin.current # None
  /\ fs.pin_file # None

\* C26: between a successful setup_quick_pin(p) and the next setup or
\* disable, verify_pin(q) succeeds exactly when q = p, and a mismatch is the
\* failure result "Incorrect PIN".
C26_VerifyAcceptsExactlyTheSetupPin ==
  (last.op = "verify_pin" /\ before.configured_pin.current # None) =>
    /\ last.success <=> (last.pin = Get(before.configured_pin.current))
    /\ last.success => last.message = "PIN verified!"
    /\ ~last.success => last.message = "Incorrect PIN"

\* The PIN of the latest setup was verified after another PIN had been
\* configured and removed.
C26_Witness ==
  /\ last.op = "verify_pin"
  /\ last.success
  /\ configured_pin.current = Some(last.pin)
  /\ configured_pin.former # None
  /\ configured_pin.former # configured_pin.current

\* C27: while no PIN is configured (never set up, or removed by
\* disable_quick_pin), verify_pin fails with "Quick PIN not enabled" for
\* every PIN, the formerly valid one included.
C27_NoPinMeansNotEnabled ==
  (last.op = "verify_pin" /\ before.configured_pin.current = None) =>
    /\ ~last.success
    /\ last.message = "Quick PIN not enabled"

\* The PIN that was valid before the disable was tried.
C27_Witness ==
  /\ last.op = "verify_pin"
  /\ configured_pin.current = None
  /\ configured_pin.former = Some(last.pin)
  /\ last.message = "Quick PIN not enabled"

\* C28: in every state the PIN credential file exists exactly when the
\* pin_enabled flag of the authenticator is true.
C28_PinFileIffEnabled ==
  (fs.pin_file # None) <=> app.face_auth.pin_enabled

\* A newly constructed authenticator found the PIN file.
C28_Witness ==
  /\ last.op = "__init__"
  /\ fs.pin_file # None
  /\ app.face_auth.pin_enabled
  /\ configured_pin.current # None

\* ------------------------------------------------------------------------
\* Properties of the face profile (SpecProfile).

Profile == app.face_auth.known_face_encodings

RegistrationErrors ==
  {"Image load failed", "No face detected", "Multiple faces", "Encoding failed",
   "Exception"}

C30_NotRegisteredBeforeAnyDetection ==
  (last.op = "verify_face_from_frame" /\ before.fa.known_face_encodings = <<>>) =>
    /\ ~last.success
    /\ last.message = "No face registered"
    /\ ~last.matcher
    /\ last.liveness = ""
    /\ app.face_auth = before.fa
    /\ fs = before.fs

\* After failed matches and a reset of the face data, a frame with closed
\* eyes was given to verify_face_from_frame.
C30_Witness ==
  /\ last.op = "verify_face_from_frame"
  /\ before.fa.known_face_encodings = <<>>
  /\ last.frame.left_ear = 300
  /\ app.face_auth.current_attempt > 0
  /\ app.face_auth.blink_state = "open"
  /\ fs.auth_log # <<>>

\* ------------------------------------------------------------------------
\* Properties of matching (SpecMatch).

\* The errors a match can end in: no face, several faces, no encoding, an
\* exception in the detector or in the comparison.
DetectionErrors ==
  {"No face detected", "Multiple faces", "Encoding failed", "Exception"}

\* The call reached the detector and the frame or the pipeline was faulty.
DetectionFailed ==
  /\ last.op = "verify_face_from_frame"
  /\ last.matcher
  /\ \/ last.faults.detect # "ok"
     \/ last.frame.locations # "one"
     \/ last.frame.encodings = <<>>

\* C31: a verify_face_from_frame call that ends in a detection error (no
\* face, several faces, encoding failure, exception in detection or matching)
\* returns the error without success and leaves the attempt counter and the
\* audit log as they were.
C31_DetectionErrorBurnsNoAttempt ==
  DetectionFailed =>
    /\ ~last.success
    /\ ~last.can_use_pin
    /\ last.confidence = 0
    /\ last.message \in DetectionErrors
    /\ app.face_auth.current_attempt = before.fa.current_attempt
    /\ fs.auth_log = before.fs.auth_log

\* After one failed match the comparison raised on a well-formed frame.
C31_Witness ==
  /\ DetectionFailed
  /\ last.faults.detect = "matchraise"
  /\ last.frame.locations = "one"
  /\ last.frame.encodings # <<>>
  /\ before.fa.current_attempt = 1
  /\ app.face_auth.current_attempt = 1

\* ------------------------------------------------------------------------
\* Properties of the settings (SpecSettings).

\* The five authentication settings of an authenticator.
Settings(fa) ==
  [min_confidence_threshold |-> fa.min_confidence_threshold,
   face_only_threshold |-> fa.face_only_threshold,
   max_attempts |-> fa.max_attempts,
   liveness_enabled |-> fa.liveness_enabled,
   blinks_required |-> fa.blinks_required]

\* What a new process would load from the files as they are.
PersistedSettings == Settings(load_settings(NewAuthenticator, fs))

\* C32: after every operation the persisted authentication settings equal
\* the settings in memory.
C32_PersistedSettingsEqualInMemory ==
  Settings(app.face_auth) = PersistedSettings

\* ------------------------------------------------------------------------
\* More properties of matching (SpecMatch).

\* The distance from an embedding to the nearer of the enrolled samples 0
\* and 100, in hundredths.
NearestDistance ==
  [e \in MatchEncodings |->
     CASE e = 0 -> 0 [] e = 50 -> 50 [] e = 115 -> 15 [] e = 250 -> 150]

\* A call that compared the frame's embedding with the profile.
Compared ==
  /\ last.op \in {"verify_face_from_frame", "get_face_confidence"}
  /\ last.op = "verify_face_from_frame" => last.matcher
  /\ last.faults.detect = "ok"
  /\ last.frame.locations = "one"
  /\ last.frame.encodings # <<>>

\* C33: the confidence of a comparison is (1 - nearest distance) * 100
\* clamped to 0..100: it lies in 0..100, is 100 at distance 0, and does not
\* grow when the nearest distance grows.
C33_ConfidenceIsClampedDistance ==
  /\ Compared =>
       LET d == NearestDistance[last.frame.encodings[1]]
       IN /\ last.confidence = (IF 100 - d < 0 THEN 0 ELSE 100 - d)
          /\ last.confidence \in 0..100
          /\ d = 0 => last.confidence = 100
  /\ \A e1, e2 \in MatchEncodings :
       NearestDistance[e1] <= NearestDistance[e2] =>
         match_confidence(app.face_auth.known_face_encodings, e1)
           >= match_confidence(app.face_auth.known_face_encodings, e2)

\* A face nearer to the second sample than to the first was compared, and a
\* face further than 100 hundredths from both.
C33_Witness ==
  /\ Compared
  /\ last.frame.encodings = <<115>>
  /\ last.confidence = 85
  /\ match_confidence(app.face_auth.known_face_encodings, 250) = 0

\* C34: get_face_confidence is no attempt: whatever the frame and whatever
\* the detector does, the attempt counter, the liveness session, every other
\* field of the authenticator and every file including the audit log are as
\* before the call.
C34_PreviewChangesNothing ==
  last.op = "get_face_confidence" =>
    /\ app.face_auth.current_attempt = before.fa.current_attempt
    /\ app.face_auth.blink_counter = before.fa.blink_counter
    /\ app.face_auth.blink_state = before.fa.blink_state
    /\ app.face_auth.last_ear = before.fa.last_ear
    /\ app.face_auth.liveness_verified = before.fa.liveness_verified
    /\ app.face_auth = before.fa
    /\ fs.auth_log = before.fs.auth_log
    /\ fs = before.fs

\* A preview below the threshold after one failed match, with the liveness
\* session not verified.
C34_Witness ==
  /\ last.op = "get_face_confidence"
  /\ last.success
  /\ last.confidence = 50
  /\ last.confidence < app.face_auth.min_confidence_threshold
  /\ app.face_auth.current_attempt = 1
  /\ ~app.face_auth.liveness_verified
  /\ Len(fs.auth_log) = 1

\* The liveness check of the call failed open: liveness detection was on,
\* the session was not verified, and the landmark step raised.
FailedOpen ==
  /\ last.op = "verify_face_from_frame"
  /\ last.faults.liveness
  /\ before.fa.liveness_enabled
  /\ ~before.fa.liveness_verified

\* C35: a liveness check that failed open lets the match run but does not
\* mark the session verified, and the match of the same call never offers
\* the PIN unlock.
C35_FailOpenNeverOffersPin ==
  FailedOpen =>
    /\ last.liveness = "Liveness check skipped"
    /\ last.matcher
    /\ ~app.face_auth.liveness_verified
    /\ ~last.can_use_pin

\* A failed-open check followed by a match with full confidence while the
\* quick PIN is enabled.
C35_Witness ==
  /\ FailedOpen
  /\ last.success
  /\ last.confidence = 100
  /\ last.confidence >= app.face_auth.face_only_threshold
  /\ app.face_auth.pin_enabled
  /\ last.message = "Verified"

\* C36: verify_face_from_frame never returns can_use_pin = TRUE together
\* with success = FALSE, whatever the confidence threshold is, also when it
\* lies above the PIN-unlock threshold.
C36_NoPinOfferWithoutSuccess ==
  last.op = "verify_face_from_frame" => ~(last.can_use_pin /\ ~last.success)

\* A failed match whose confidence 85 is above the PIN-unlock threshold 80
\* and below the confidence threshold 90, with liveness verified and the
\* quick PIN enabled.
C36_Witness ==
  /\ last.op = "verify_face_from_frame"
  /\ last.matcher
  /\ ~last.success
  /\ last.confidence = 85
  /\ last.confidence >= app.face_auth.face_only_threshold
  /\ last.confidence < app.face_auth.min_confidence_threshold
  /\ app.face_auth.liveness_verified
  /\ app.face_auth.pin_enabled
  /\ ~last.can_use_pin

\* C37: every entry of the audit log whose unlock path is PIN has the
\* outcome OK.
C37_PinEntriesAreOk ==
  \A i \in DOMAIN fs.auth_log :
    fs.auth_log[i].unlock = "PIN" => fs.auth_log[i].status = "OK"

\* ------------------------------------------------------------------------
\* Verifier and vault blob together (SpecVault).

\* C38: from the first run on, after every unlock, add, delete, lock and
\* reset, in the GUI and in test_vault.py, whenever the verifier and the
\* vault blob both exist, some passphrase is accepted against the verifier
\* and every accepted passphrase derives the key under which the blob
\* decrypts.
C38_AcceptedPassphraseOpensVault ==
  (fs.master_hash # None /\ fs.vault_file # None) =>
    /\ \E p \in Passphrases : fs.master_hash = Some(<<"sha256", p>>)
    /\ \A p \in Passphrases :
         core_verify_master_password(fs, p).ok =>
           /\ Get(fs.vault_file).fernet_key = <<"urlsafe_b64encode", <<"sha256", p>>>>
           /\ load_vault(fs, derive_key(p)).ok

\* The only entry was deleted in the GUI in a vault that test_vault.py
\* created under passphrase "b".
C38_Witness ==
  /\ last.op = "delete_selected"
  /\ last.success
  /\ first_passphrase = Some("b")
  /\ fs.master_hash # None
  /\ fs.vault_file # None
  /\ Get(fs.vault_file).plaintext = json_dumps(EmptyVault)
  /\ before.fs.vault_file # fs.vault_file

\* ------------------------------------------------------------------------
\* Repeated frames (SpecLiveness).

\* The authenticator after check_liveness_frame has processed frame once.
FedOnce(frame) == check_liveness_frame(app.face_auth, frame, FALSE).fa

\* C39: in every state of a liveness session, giving check_liveness_frame
\* the same frame twice in a row leaves the session (blink counter, blink
\* state, last EAR, verified flag) as giving it once does.
C39_SameFrameTwiceIsOnce ==
  \A frame \in LivenessFrames :
    check_liveness_frame(FedOnce(frame), frame, FALSE).fa = FedOnce(frame)

\* The session has just counted a blink that does not complete it, and the
\* open-eyes frame that ended the blink was processed a second time.
C39_Witness ==
  /\ last.op = "check_liveness_frame"
  /\ last.processed
  /\ Len(observations) >= 3
  /\ observations[Len(observations)] = "open"
  /\ observations[Len(observations) - 1] = "open"
  /\ observations[Len(observations) - 2] = "closed"
  /\ app.face_auth = before.fa
  /\ app.face_auth.blink_counter = 1
  /\ app.face_auth.last_ear = 300
  /\ ~app.face_auth.liveness_verified

\* ------------------------------------------------------------------------
\* The range of the attempt counter (Spec).

\* C40: in every state of the login flow the attempt counter lies between 0
\* and max_attempts.
C40_AttemptCounterInRange ==
  /\ 0 <= app.face_auth.current_attempt
  /\ app.face_auth.current_attempt <= app.face_auth.max_attempts

\* A failed match took the counter from one below max_attempts to
\* max_attempts.
C40_Witness ==
  /\ last.op = "verify_face"
  /\ last.matcher /\ ~last.success
  /\ app.face_auth.max_attempts > 0
  /\ before.current_attempt = app.face_auth.max_attempts - 1
  /\ app.face_auth.current_attempt = app.face_auth.max_attempts

====
